---------------------------- MODULE Spec2Model ----------------------------
(***************************************************************************)
(* A model of custom_repo: the recipe language (tokenizer, validator,      *)
(* version resolver), the build context with its $VAR substitution, the    *)
(* extension filter and the driver that loads and executes the recipes.    *)
(*                                                                         *)
(* Text is modelled as a sequence of one-character strings, so that        *)
(* substring search, replacement and splitting are computed as the Python  *)
(* code computes them.  A call that can raise returns a record             *)
(* [exc |-> <exception class or "none">, val |-> <value>].                 *)
(***************************************************************************)
EXTENDS Integers, Sequences, FiniteSets, TLC

VARIABLES
    path_or_suffixes,   \* filter_exts: the suffix chain handed to the filter
    filtered,           \* filter_exts: the outcome of the call
    ext_pc,             \* filter_exts: "input" while the chain is built, "done" after the call
    inputs,             \* read_lines: the lines of the recipe file
    lines,              \* read_lines: the outcome of the call, a list of [cmd, args]
    rl_pc,              \* read_lines: "input" while the file is written, "done" after the call
    release_data,       \* GitHub: the non-prerelease releases, a list of [tag, assets] in listing order
    gh_version,         \* GitHub: the outcome of get_version_from_github
    recent,             \* GitHub: the outcome of find_recent_asset, with the pattern it was given
    gh_pc,              \* GitHub: "input" while releases are published, "done" after get_version_from_github, "found" after find_recent_asset
    fv_params,          \* fix_vars: the build context (Params)
    fv_string,          \* fix_vars: the template
    fv_out,             \* fix_vars: the outcome of the call, with the skip argument it was given
    fv_pc,              \* fix_vars: "input" while context and template are set up, "done" after the call
    recipe,             \* parse_tool: the commands of the recipe file, as read_lines returns them
    parse_out,          \* parse_tool: the outcome of the call, with the tool and the network it was given
    parse_pc,           \* parse_tool: "input" while the recipe is written, "done" after the call
    program,            \* filter_cmds: the commands handed to the validator, each [cmd, args]
    filter_out,         \* filter_cmds: the outcome of the call, with the releases GitHub listed
    filter_pc,          \* filter_cmds: "input" while the program is written, "done" after the call
    folder,             \* main: the entries of the configs folder in listing order, each [tool, ls]
    pkgs,               \* main: the file names in pkgs/<manager>, by manager
    tmpdir_debug,       \* main: whether the environment variable TMPDIR_DEBUG is set
    main_pc,            \* main: the statement main is at, "done" after the loop, "crashed" once an exception left it
    configs,            \* main: the loaded recipes, a list of [params, cmds]
    recipe_ix,          \* main: the number of recipes the loop is through
    cmd_ix,             \* main: the number of commands run of the recipe in progress
    wd,                 \* main: the kind of working directory the open scope gave ("none" outside a scope)
    tmp_dirs,           \* main: the temporary directories on disk, each [owner, files]
    error,              \* main: the exception that left main, where it was raised and for which file or recipe
    started,            \* main: the recipes (by position) whose execution was started
    skipped             \* main: the recipes (by position) skipped because their artifact exists

extVars == <<path_or_suffixes, filtered, ext_pc>>

rlVars == <<inputs, lines, rl_pc>>

ghVars == <<release_data, gh_version, recent, gh_pc>>

fvVars == <<fv_params, fv_string, fv_out, fv_pc>>

parseVars == <<recipe, parse_out, parse_pc>>

filterVars == <<program, filter_out, filter_pc>>

mainVars ==
    << folder, pkgs, tmpdir_debug, main_pc, configs, recipe_ix, cmd_ix, wd,
       tmp_dirs, error, started, skipped >>

vars == <<extVars, rlVars, ghVars, fvVars, parseVars, filterVars, mainVars>>

\* what the actions of one component leave alone
notExt   == <<rlVars, ghVars, fvVars, parseVars, mainVars, filterVars>>
notRl    == <<extVars, ghVars, fvVars, parseVars, mainVars, filterVars>>
notGh    == <<extVars, rlVars, fvVars, parseVars, mainVars, filterVars>>
notFv    == <<extVars, rlVars, ghVars, parseVars, mainVars, filterVars>>
notParse == <<extVars, rlVars, ghVars, fvVars, mainVars, filterVars>>
notMain  == <<extVars, rlVars, ghVars, fvVars, parseVars, filterVars>>
notFilter == <<extVars, rlVars, ghVars, fvVars, parseVars, mainVars>>

-----------------------------------------------------------------------------
(* Outcomes of calls *)

Ok(v) == [exc |-> "none", val |-> v]

Raise(e) == [exc |-> e, val |-> <<>>]

NotCalled == [exc |-> "not_called", val |-> <<>>]

IsOk(r) == r.exc = "none"

\* the rest of a function body after a call: F of the value the call
\* returned, or the exception it raised, which propagates
Then(r, F(_)) == IF IsOk(r) THEN F(r.val) ELSE r

-----------------------------------------------------------------------------
(* Each specification below exercises one component; the variables of the  *)
(* other components stay at these values.                                  *)

ExtIdle ==
    /\ path_or_suffixes = <<>>
    /\ filtered = NotCalled
    /\ ext_pc = "idle"

RlIdle ==
    /\ inputs = <<>>
    /\ lines = NotCalled
    /\ rl_pc = "idle"

GhIdle ==
    /\ release_data = <<>>
    /\ gh_version = NotCalled
    /\ recent = NotCalled
    /\ gh_pc = "idle"

FvIdle ==
    /\ fv_params = <<>>
    /\ fv_string = <<>>
    /\ fv_out = NotCalled
    /\ fv_pc = "idle"

ParseIdle ==
    /\ recipe = <<>>
    /\ parse_out = NotCalled
    /\ parse_pc = "idle"

FilterIdle ==
    /\ program = <<>>
    /\ filter_out = NotCalled
    /\ filter_pc = "idle"

NoError == [exc |-> "none", at |-> "none", file |-> <<>>, recipe |-> 0]

MainIdle ==
    /\ folder = <<>>
    /\ pkgs = [APT |-> {}, CONDA |-> {}, CHOCO |-> {}, BREW |-> {}]
    /\ tmpdir_debug = FALSE
    /\ main_pc = "idle"
    /\ configs = <<>>
    /\ recipe_ix = 0
    /\ cmd_ix = 0
    /\ wd = "none"
    /\ tmp_dirs = {}
    /\ error = NoError
    /\ started = {}
    /\ skipped = {}

-----------------------------------------------------------------------------
(* Text: sequences of one-character strings *)

StartsWithAt(s, i, p) ==
    /\ i + Len(p) - 1 <= Len(s)
    /\ \A j \in 1..Len(p) : s[i + j - 1] = p[j]

\* str.startswith
StartsWith(s, p) == StartsWithAt(s, 1, p)

\* `p in s`
Contains(s, p) == \E i \in 1..(Len(s) + 1) : StartsWithAt(s, i, p)

\* the positions from i on at which old occurs in s
OccurrencesFrom(s, i, old) == {j \in i..Len(s) : StartsWithAt(s, j, old)}

\* the least element of a non-empty set of integers
Least(S) == CHOOSE j \in S : \A k \in S : j <= k

RECURSIVE ReplaceFrom(_, _, _, _)
\* s from position i on, with the leftmost occurrence of old replaced and
\* the replacement carried on behind it
ReplaceFrom(s, i, old, new) ==
    IF OccurrencesFrom(s, i, old) = {} THEN SubSeq(s, i, Len(s))
    ELSE SubSeq(s, i, Least(OccurrencesFrom(s, i, old)) - 1) \o new
           \o ReplaceFrom(s, Least(OccurrencesFrom(s, i, old)) + Len(old), old, new)

\* str.replace(old, new) for a non-empty old: leftmost non-overlapping occurrences
Replace(s, old, new) == ReplaceFrom(s, 1, old, new)

Whitespace == {" ", "\t"}

RECURSIVE LStripCount(_)
\* len(s) - len(s.lstrip())
LStripCount(s) ==
    IF s # <<>> /\ Head(s) \in Whitespace THEN 1 + LStripCount(Tail(s)) ELSE 0

\* not s.strip()
IsBlank(s) == LStripCount(s) = Len(s)

\* str.removeprefix: s without the prefix p if it starts with it, else s itself
RemovePrefix(s, p) ==
    IF StartsWith(s, p) THEN SubSeq(s, Len(p) + 1, Len(s)) ELSE s

RECURSIVE SplitWords(_, _, _)
\* shlex.split of a line without quotes or escapes: the words between whitespace
SplitWords(s, i, word) ==
    IF i > Len(s)
    THEN IF word = <<>> THEN <<>> ELSE <<word>>
    ELSE IF s[i] \in Whitespace
         THEN (IF word = <<>> THEN <<>> ELSE <<word>>) \o SplitWords(s, i + 1, <<>>)
         ELSE SplitWords(s, i + 1, Append(word, s[i]))

RECURSIVE SplitOn(_, _, _, _)
\* s.split(ch): the pieces of s between the occurrences of the character ch
SplitOn(s, ch, i, piece) ==
    IF OccurrencesFrom(s, i, <<ch>>) = {} THEN <<piece \o SubSeq(s, i, Len(s))>>
    ELSE <<piece \o SubSeq(s, i, Least(OccurrencesFrom(s, i, <<ch>>)) - 1)>>
           \o SplitOn(s, ch, Least(OccurrencesFrom(s, i, <<ch>>)) + 1, <<>>)

Split(s, ch) == SplitOn(s, ch, 1, <<>>)

RECURSIVE LStripChar(_, _)
\* s.lstrip(ch)
LStripChar(s, ch) ==
    IF s # <<>> /\ Head(s) = ch THEN LStripChar(Tail(s), ch) ELSE s

\* the printable ASCII characters of codes 32 to 95, and of codes 97 to 126
AsciiTo95 ==
    << " ", "!", "\"", "#", "$", "%", "&", "'", "(", ")", "*", "+", ",", "-", ".", "/",
       "0", "1", "2", "3", "4", "5", "6", "7", "8", "9", ":", ";", "<", "=", ">", "?",
       "@", "A", "B", "C", "D", "E", "F", "G", "H", "I", "J", "K", "L", "M", "N", "O",
       "P", "Q", "R", "S", "T", "U", "V", "W", "X", "Y", "Z", "[", "\\", "]", "^", "_" >>

AsciiFrom97 ==
    << "a", "b", "c", "d", "e", "f", "g", "h", "i", "j", "k", "l", "m", "n", "o",
       "p", "q", "r", "s", "t", "u", "v", "w", "x", "y", "z", "{", "|", "}", "~" >>

\* ord(c)
Ord(c) ==
    IF \E i \in 1..Len(AsciiTo95) : AsciiTo95[i] = c
    THEN 31 + CHOOSE i \in 1..Len(AsciiTo95) : AsciiTo95[i] = c
    ELSE 96 + CHOOSE i \in 1..Len(AsciiFrom97) : AsciiFrom97[i] = c

\* the regular expression class \d
IsDigit(c) == c \in {"0", "1", "2", "3", "4", "5", "6", "7", "8", "9"}

\* pathlib: Path(p).name, the text after the last "/"
PathName(p) == LET parts == Split(p, "/") IN parts[Len(parts)]

\* pathlib: Path(p).suffixes
Suffixes(p) ==
    LET name == PathName(p) IN
    IF name # <<>> /\ name[Len(name)] = "." THEN <<>>
    ELSE LET pieces == Split(LStripChar(name, "."), ".")
         IN  [i \in 1..(Len(pieces) - 1) |-> <<".">> \o pieces[i + 1]]

RECURSIVE GlobMatch(_, _)
\* fnmatch.fnmatchcase for patterns made of literal characters, "*" and "?"
GlobMatch(name, pat) ==
    IF pat = <<>> THEN name = <<>>
    ELSE IF Head(pat) = "*"
         THEN \E k \in 0..Len(name) : GlobMatch(SubSeq(name, k + 1, Len(name)), Tail(pat))
         ELSE /\ name # <<>>
              /\ (Head(pat) = "?" \/ Head(pat) = Head(name))
              /\ GlobMatch(Tail(name), Tail(pat))

RECURSIVE Flatten(_)
\* "".join(parts)
Flatten(parts) ==
    IF parts = <<>> THEN <<>> ELSE Head(parts) \o Flatten(Tail(parts))

\* the elements of a list, as a set
Range(f) == {f[i] : i \in DOMAIN f}

-----------------------------------------------------------------------------
(* modules/ext.py *)

COMPRESSION_EXTENSIONS ==
    { <<".", "t", "g", "z">>,
      <<".", "t", "a", "r", ".", "g", "z">>,
      <<".", "t", "b", "z", "2">>,
      <<".", "b", "z", "2">>,
      <<".", "t", "a", "r">>,
      <<".", "g", "z">>,
      <<".", "x", "z">>,
      <<".", "z", "i", "p">>,
      <<".", "7", "z">> }

ALLOWED_EXTENSIONS ==
    COMPRESSION_EXTENSIONS \cup
    { <<".", "d", "e", "b">>,
      <<".", "r", "p", "m">>,
      <<".", "e", "x", "e">>,
      <<".", "m", "s", "i">>,
      <<".", "r", "b">>,
      <<".", "n", "u", "p", "k", "g">>,
      <<".", "n", "u", "s", "p", "e", "c">>,
      <<".", "p", "s", "1">>,
      <<".", "x", "m", "l">> }

RECURSIVE TrailingAllowed(_)
\* the loop over reversed(suffixes): the number of suffixes taken before the break
TrailingAllowed(sfx) ==
    IF sfx = <<>> THEN 0
    ELSE IF sfx[Len(sfx)] \in ALLOWED_EXTENSIONS
         THEN 1 + TrailingAllowed(SubSeq(sfx, 1, Len(sfx) - 1))
         ELSE 0

\* a plausible slip: the check on the remaining prefix is dropped
filter_exts_nocheck(sfx) ==
    Ok(SubSeq(sfx, Len(sfx) - TrailingAllowed(sfx) + 1, Len(sfx)))

\* a plausible slip: any disallowed suffix in front of the kept run is an error
filter_exts_strict(sfx) ==
    LET n == TrailingAllowed(sfx) IN
    IF n < Len(sfx) THEN Raise("ExtensionError")
    ELSE Ok(sfx)

filter_exts(sfx) ==
    LET n         == TrailingAllowed(sfx)
        kept      == SubSeq(sfx, Len(sfx) - n + 1, Len(sfx))
        remaining == SubSeq(sfx, 1, Len(sfx) - n)
    IN  IF Range(remaining) \cap ALLOWED_EXTENSIONS # {}
        THEN Raise("ExtensionError")
        ELSE Ok(kept)

-----------------------------------------------------------------------------
(* Specification of the extension filter: every chain of at most           *)
(* MaxSuffixes suffixes of SuffixPool is built, then filtered.             *)

MaxSuffixes == 3

S_tar == <<".", "t", "a", "r">>
S_gz  == <<".", "g", "z">>
S_bak == <<".", "b", "a", "k">>
S_2   == <<".", "2">>

SuffixPool == {S_tar, S_gz, S_bak, S_2}

ExtInit ==
    /\ path_or_suffixes = <<>>
    /\ filtered = NotCalled
    /\ ext_pc = "input"

AppendSuffix(s) ==
    /\ ext_pc = "input"
    /\ Len(path_or_suffixes) < MaxSuffixes
    /\ path_or_suffixes' = Append(path_or_suffixes, s)
    /\ UNCHANGED <<filtered, ext_pc>>
    /\ UNCHANGED notExt

CallFilterExts ==
    /\ ext_pc = "input"
    /\ filtered' = filter_exts(path_or_suffixes)
    /\ ext_pc' = "done"
    /\ UNCHANGED path_or_suffixes
    /\ UNCHANGED notExt

ExtNext ==
    \/ \E s \in SuffixPool : AppendSuffix(s)
    \/ CallFilterExts

InitExt == ExtInit /\ RlIdle /\ GhIdle /\ FvIdle /\ ParseIdle /\ MainIdle /\ FilterIdle

SpecExt == InitExt /\ [][ExtNext]_vars

-----------------------------------------------------------------------------
(* Claims about the extension filter (checked under SpecExt) *)

IsAllowed(x) == x \in ALLOWED_EXTENSIONS

\* some disallowed suffix stands to the left of an allowed one
DisallowedPrecedesAllowed(sfx) ==
    \E i, j \in 1..Len(sfx) :
        i < j /\ ~IsAllowed(sfx[i]) /\ IsAllowed(sfx[j])

\* some allowed suffix has a disallowed one to its right
AllowedPrecedesDisallowed(sfx) ==
    \E i, j \in 1..Len(sfx) :
        i < j /\ IsAllowed(sfx[i]) /\ ~IsAllowed(sfx[j])

\* C8 as stated: a chain of allowed suffixes only is returned unchanged, and
\* every chain in which a disallowed suffix precedes an allowed one fails.
C8_AsStated ==
    ext_pc = "done" =>
        /\ (\A i \in 1..Len(path_or_suffixes) : IsAllowed(path_or_suffixes[i]))
               => filtered = Ok(path_or_suffixes)
        /\ DisallowedPrecedesAllowed(path_or_suffixes)
               => filtered.exc = "ExtensionError"

\* C8, amended: a chain of allowed suffixes only is returned unchanged, and a
\* chain in which no allowed suffix precedes a disallowed one (its disallowed
\* suffixes all come first, as in [.bak, .tar, .gz]) does not fail: the
\* filter returns its allowed suffixes, in order ([.tar, .gz]).
C8_DisallowedPrefixDropped ==
    ext_pc = "done" =>
        /\ (\A i \in 1..Len(path_or_suffixes) : IsAllowed(path_or_suffixes[i]))
               => filtered = Ok(path_or_suffixes)
        /\ ~AllowedPrecedesDisallowed(path_or_suffixes)
               => filtered = Ok(SelectSeq(path_or_suffixes, IsAllowed))

C8_Witness ==
    /\ ext_pc = "done"
    /\ path_or_suffixes = <<S_bak, S_tar, S_gz>>
    /\ filtered = Ok(<<S_tar, S_gz>>)

\* C9: filter_exts either fails with ExtensionError or returns the maximal
\* trailing run of allowed suffixes; it fails exactly when an allowed suffix
\* has a disallowed suffix somewhere to its right.
C9_MaximalTrailingRun ==
    ext_pc = "done" =>
        LET sfx == path_or_suffixes
            out == filtered.val
            cut == Len(sfx) - Len(out)
        IN  /\ filtered.exc \in {"none", "ExtensionError"}
            /\ filtered.exc = "ExtensionError" <=> AllowedPrecedesDisallowed(sfx)
            /\ IsOk(filtered) =>
                   /\ cut >= 0
                   /\ out = SubSeq(sfx, cut + 1, Len(sfx))
                   /\ \A i \in 1..Len(out) : IsAllowed(out[i])
                   /\ cut > 0 => ~IsAllowed(sfx[cut])

C9_Witness ==
    /\ ext_pc = "done"
    /\ path_or_suffixes = <<S_tar, S_gz, S_bak>>
    /\ filtered.exc = "ExtensionError"

-----------------------------------------------------------------------------
(* parser/parse.py: the tokenizer *)

\* lines[-1][1].append("")
OpenArgument(ls) ==
    [ls EXCEPT ![Len(ls)].args = Append(@, <<>>)]

\* lines[-1][1][-1] += line
ExtendArgument(ls, text) ==
    [ls EXCEPT ![Len(ls)].args = [@ EXCEPT ![Len(@)] = @ \o text]]

\* line.removeprefix(indent) + "\n" inside try/except AttributeError:
\* str.removeprefix never raises, so the except branch is not reachable
StripIndent(line, indent) == Ok(RemovePrefix(line, indent) \o <<"\n">>)

RECURSIVE read_lines_from(_, _, _, _)
\* the for loop of read_lines, from line i on, with the locals lines and indent
read_lines_from(inp, i, ls, indent) ==
    IF i > Len(inp) THEN Ok(ls)
    ELSE
      LET line == inp[i] IN
      IF IsBlank(line) \/ StartsWith(line, <<"#">>)
      THEN read_lines_from(inp, i + 1, ls, indent)
      ELSE IF Head(line) \in Whitespace
      THEN
        IF ls = <<>> THEN Raise("ParsingError")
        ELSE
          LET first    == indent = <<>>
              ls1      == IF first THEN OpenArgument(ls) ELSE ls
              indent1  == IF first THEN SubSeq(line, 1, LStripCount(line)) ELSE indent
              stripped == StripIndent(line, indent1)
          IN  IF ~IsOk(stripped) THEN stripped
              ELSE read_lines_from(inp, i + 1, ExtendArgument(ls1, stripped.val), indent1)
      ELSE
        LET words == SplitWords(line, 1, <<>>) IN
        read_lines_from(inp, i + 1,
                        Append(ls, [cmd |-> Head(words), args |-> Tail(words)]),
                        <<>>)

read_lines(inp) == read_lines_from(inp, 1, <<>>, <<>>)

-----------------------------------------------------------------------------
(* Specification of the tokenizer: every file of at most MaxLines lines    *)
(* of LinePool is written, then tokenized.                                 *)

MaxLines == 3

LinePool ==
    { <<"A">>,
      <<"B", " ", "c">>,
      <<" ", " ", " ", " ", "x">>,
      <<" ", " ", "y">>,
      <<" ", " ", " ", " ", " ", "z">>,
      <<"\t", "w">>,
      <<" ", " ">>,
      <<"#", "n">> }

RlInit ==
    /\ inputs = <<>>
    /\ lines = NotCalled
    /\ rl_pc = "input"

WriteLine(l) ==
    /\ rl_pc = "input"
    /\ Len(inputs) < MaxLines
    /\ inputs' = Append(inputs, l)
    /\ UNCHANGED <<lines, rl_pc>>
    /\ UNCHANGED notRl

CallReadLines ==
    /\ rl_pc = "input"
    /\ lines' = read_lines(inputs)
    /\ rl_pc' = "done"
    /\ UNCHANGED inputs
    /\ UNCHANGED notRl

RlNext ==
    \/ \E l \in LinePool : WriteLine(l)
    \/ CallReadLines

InitReadLines == RlInit /\ ExtIdle /\ GhIdle /\ FvIdle /\ ParseIdle /\ MainIdle /\ FilterIdle

SpecReadLines == InitReadLines /\ [][RlNext]_vars

-----------------------------------------------------------------------------
(* Claims about the tokenizer (checked under SpecReadLines) *)

Skipped(line) == IsBlank(line) \/ StartsWith(line, <<"#">>)

Indented(line) == ~Skipped(line) /\ Head(line) \in Whitespace

\* line j continues the block whose first indented line is line f: both are
\* indented and only skipped or indented lines lie between them, the line
\* before the block (skipped lines aside) being a command line
BlockFirst(inp, f, j) ==
    /\ f < j
    /\ Indented(inp[f]) /\ Indented(inp[j])
    /\ \A k \in (f + 1)..(j - 1) : Skipped(inp[k]) \/ Indented(inp[k])
    /\ \E c \in 1..(f - 1) :
          /\ ~Skipped(inp[c]) /\ ~Indented(inp[c])
          /\ \A k \in (c + 1)..(f - 1) : Skipped(inp[k])

\* a later line of a block that does not start with the block's prefix
PartialDedent(inp) ==
    \E f, j \in 1..Len(inp) :
        /\ BlockFirst(inp, f, j)
        /\ ~StartsWith(inp[j], SubSeq(inp[f], 1, LStripCount(inp[f])))

\* C10: a later indented line of a continuation block that does not start
\* with the block's indentation prefix makes tokenizing fail with a parsing
\* error; it is never accepted into the argument.
C10_PartialDedentFails ==
    (rl_pc = "done" /\ PartialDedent(inputs)) => lines.exc = "ParsingError"

-----------------------------------------------------------------------------
(* modules/download/gh.py and parser/parse.py: version from GitHub *)

\* release_data.get(tag): the assets listed under tag, None (here <<>>) if absent
AssetsOf(rd, tag) ==
    IF \E i \in 1..Len(rd) : rd[i].tag = tag
    THEN rd[CHOOSE i \in 1..Len(rd) : rd[i].tag = tag].assets
    ELSE <<>>

\* the asset name if exactly one matches, None (here <<>>) if none does
find_asset_by_tag(rd, pattern, tag) ==
    LET assets  == AssetsOf(rd, tag)
        matches == SelectSeq(assets, LAMBDA a : GlobMatch(a, pattern))
    IN  IF assets = <<>> THEN Raise("GitHubError")
        ELSE IF matches = <<>> THEN Ok(<<>>)
        ELSE IF Len(matches) > 1 THEN Raise("GitHubError")
        ELSE Ok(matches[1])

RECURSIVE find_recent_asset_from(_, _, _)
find_recent_asset_from(rd, pattern, i) ==
    IF i > Len(rd) THEN Raise("GitHubError")
    ELSE LET found == find_asset_by_tag(rd, pattern, rd[i].tag) IN
         IF ~IsOk(found) THEN found
         ELSE IF found.val # <<>> THEN Ok([asset |-> found.val, tag |-> rd[i].tag])
         ELSE find_recent_asset_from(rd, pattern, i + 1)

find_recent_asset(rd, pattern) == find_recent_asset_from(rd, pattern, 1)

\* the character class [^\d.-_] of re.sub: inside the brackets ".-_" is the
\* range from "." to "_", so a character is kept if it is a digit or lies in
\* that range
KeptByVersionPattern(c) ==
    IsDigit(c) \/ (Ord(".") <= Ord(c) /\ Ord(c) <= Ord("_"))

\* re.sub(r"[^\d.-_]", "", version_str)
SanitizeVersion(version_str) == SelectSeq(version_str, KeptByVersionPattern)

\* pattern and tag: <<>> stands for None (and for "", which is as falsy).
\* The value also reports version_str, the tag the version was taken from.
get_version_from_github(rd, pattern, tag) ==
    IF rd = <<>> THEN Raise("ParsingError")
    ELSE
      LET choice ==
            IF pattern = <<>> THEN Ok([asset |-> <<>>, tag |-> rd[1].tag])
            ELSE IF tag # <<>>
            THEN LET found == find_asset_by_tag(rd, pattern, tag) IN
                 IF ~IsOk(found) THEN found
                 ELSE IF found.val # <<>> THEN Ok([asset |-> found.val, tag |-> tag])
                 ELSE Raise("ParsingError")
            ELSE find_recent_asset(rd, pattern)
      IN  IF ~IsOk(choice) THEN choice
          ELSE Ok([version     |-> SanitizeVersion(choice.val.tag),
                   suffixes    |-> IF choice.val.asset # <<>>
                                   THEN Suffixes(choice.val.asset) ELSE <<>>,
                   version_str |-> choice.val.tag])

-----------------------------------------------------------------------------
(* Specification of GitHub-mode resolution: up to MaxReleases releases     *)
(* with distinct tags are listed, then the version is resolved for a       *)
(* pattern and a tag.                                                      *)

MaxReleases == 2

T_v20   == <<"v", "2", ".", "0">>
T_V10rc == <<"V", "1", ".", "0", "-", "r", "c">>
T_1_0   == <<"1", "_", "0">>

TagPool == {T_v20, T_V10rc, T_1_0}

A_tool2 == <<"t", "-", "2", ".", "d", "e", "b">>
A_tool1 == <<"t", "-", "1", ".", "d", "e", "b">>

AssetsPool == { <<>>, <<A_tool2>>, <<A_tool2, A_tool1>> }

P_deb == <<"t", "-", "*", ".", "d", "e", "b">>
P_t2  == <<"t", "-", "2", "*">>

PatternPool == { <<>>, P_deb, P_t2 }

GhInit ==
    /\ release_data = <<>>
    /\ gh_version = NotCalled
    /\ recent = NotCalled
    /\ gh_pc = "input"

PublishRelease(tag, assets) ==
    /\ gh_pc = "input"
    /\ Len(release_data) < MaxReleases
    /\ \A i \in 1..Len(release_data) : release_data[i].tag # tag
    /\ release_data' = Append(release_data, [tag |-> tag, assets |-> assets])
    /\ UNCHANGED <<gh_version, recent, gh_pc>>
    /\ UNCHANGED notGh

CallGetVersionFromGithub(pattern, tag) ==
    /\ gh_pc = "input"
    /\ gh_version' = [get_version_from_github(release_data, pattern, tag)
                        EXCEPT !.val = [pattern |-> pattern, tag |-> tag, out |-> @]]
    /\ gh_pc' = "done"
    /\ UNCHANGED <<release_data, recent>>
    /\ UNCHANGED notGh

CallFindRecentAsset(pattern) ==
    /\ gh_pc = "input"
    /\ recent' = [find_recent_asset(release_data, pattern)
                    EXCEPT !.val = [pattern |-> pattern, out |-> @]]
    /\ gh_pc' = "found"
    /\ UNCHANGED <<release_data, gh_version>>
    /\ UNCHANGED notGh

GhNext ==
    \/ \E tag \in TagPool, assets \in AssetsPool : PublishRelease(tag, assets)
    \/ \E pattern \in PatternPool, tag \in TagPool \cup {<<>>} :
          CallGetVersionFromGithub(pattern, tag)
    \/ \E pattern \in PatternPool \ {<<>>} : CallFindRecentAsset(pattern)

InitGithub == GhInit /\ ExtIdle /\ RlIdle /\ FvIdle /\ ParseIdle /\ MainIdle /\ FilterIdle

SpecGithub == InitGithub /\ [][GhNext]_vars

-----------------------------------------------------------------------------
(* Claims about GitHub-mode resolution (checked under SpecGithub) *)

InVersionAlphabet(c) == IsDigit(c) \/ c \in {".", "-", "_"}

\* C7: the version returned by GitHub-mode resolution consists only of
\* characters of [0-9.\-_]: it is the chosen tag with every other character
\* removed and every digit, dot, hyphen and underscore kept, in order.
C7_VersionSanitized ==
    (gh_pc = "done" /\ IsOk(gh_version)) =>
        gh_version.val.out.version =
            SelectSeq(gh_version.val.out.version_str, InVersionAlphabet)

\* the assets of the i-th listed release that match the pattern
MatchesAt(rd, pattern, i) ==
    SelectSeq(rd[i].assets, LAMBDA a : GlobMatch(a, pattern))

\* C11: with a pattern and no tag, find_recent_asset returns (asset, tag) for
\* the first tag in listing order that has exactly one asset matching the
\* pattern, skipping every earlier tag that has no matching asset, a release
\* with no assets at all included.
C11_FirstMatchingTag ==
    gh_pc = "found" =>
        \A i \in 1..Len(release_data) :
            ( /\ Len(MatchesAt(release_data, recent.val.pattern, i)) = 1
              /\ \A j \in 1..(i - 1) :
                     MatchesAt(release_data, recent.val.pattern, j) = <<>> )
            => recent = Ok([pattern |-> recent.val.pattern,
                            out |-> [asset |-> MatchesAt(release_data, recent.val.pattern, i)[1],
                                     tag   |-> release_data[i].tag]])

-----------------------------------------------------------------------------
(* parser/params.py: the build context *)

\* TargetDir: member |-> value.  There is no member TAP.
TargetDir ==
    [ TMP  |-> <<"t", "m", "p">>,
      DEBS |-> <<"d", "e", "b", "s">>,
      BREW |-> <<"b", "r", "e", "w">> ]

\* PackageManager: member |-> value
PackageManager ==
    [ CHOCO |-> <<"c", "h", "o", "c", "o">>,
      APT   |-> <<"a", "p", "t">>,
      BREW  |-> <<"b", "r", "e", "w">>,
      CONDA |-> <<"c", "o", "n", "d", "a">> ]

\* the keys of Params, in the order parse_tool inserts them
K_NAME == <<"N", "A", "M", "E">>
K_DIR == <<"D", "I", "R">>
K_REPO == <<"R", "E", "P", "O">>
K_DOMAIN == <<"D", "O", "M", "A", "I", "N">>
K_MGR == <<"M", "G", "R">>
K_VERSION == <<"V", "E", "R", "S", "I", "O", "N">>
K_PKG == <<"P", "K", "G">>
K_FILE == <<"F", "I", "L", "E">>
K_VARS == <<"V", "A", "R", "S">>
K_AUTHORIZATION == <<"A", "U", "T", "H", "O", "R", "I", "Z", "A", "T", "I", "O", "N">>
K_STEM == <<"S", "T", "E", "M">>
K_SUFFIXES == <<"S", "U", "F", "F", "I", "X", "E", "S">>

ParamKeys ==
    << K_NAME, K_DIR, K_REPO, K_DOMAIN, K_MGR, K_VERSION, K_PKG, K_FILE,
       K_VARS, K_AUTHORIZATION, K_STEM, K_SUFFIXES >>

\* Values of the context as fix_vars sees them: a kind and, for text-like
\* kinds, the text.  A Path is kept in the normal form str() returns.
NoneV       == [kind |-> "none", text |-> <<>>]
StrV(t)     == [kind |-> "str",  text |-> t]
PathV(t)    == [kind |-> "path", text |-> t]
EnumV(t)    == [kind |-> "enum", text |-> t]
DictV       == [kind |-> "dict", text |-> <<>>]
ListV       == [kind |-> "list", text |-> <<>>]

FAILED_DOWNLOAD == StrV(<<"F", "A", "I", "L", "E", "D", "_", "D", "O", "W", "N", "L", "O", "A", "D">>)

\* A Params p is a record with the fields NAME, REPO, DOMAIN_ (the key DOMAIN,
\* a reserved word here), VERSION, AUTHORIZATION, STEM (text), DIR, MGR (member names), PKG, FILE (NoneV,
\* PathV or FAILED_DOWNLOAD), VARS (a list of [key, value], the dict in
\* insertion order) and SUFFIXES (a list of suffixes).
\* params.items(): the (key, value) pairs in insertion order
ParamItems(p) ==
    << [key |-> K_NAME,          val |-> StrV(p.NAME)],
       [key |-> K_DIR,           val |-> EnumV(TargetDir[p.DIR])],
       [key |-> K_REPO,          val |-> PathV(p.REPO)],
       [key |-> K_DOMAIN,        val |-> StrV(p.DOMAIN_)],
       [key |-> K_MGR,           val |-> EnumV(PackageManager[p.MGR])],
       [key |-> K_VERSION,       val |-> StrV(p.VERSION)],
       [key |-> K_PKG,           val |-> p.PKG],
       [key |-> K_FILE,          val |-> p.FILE],
       [key |-> K_VARS,          val |-> DictV],
       [key |-> K_AUTHORIZATION, val |-> StrV(p.AUTHORIZATION)],
       [key |-> K_STEM,          val |-> StrV(p.STEM)],
       [key |-> K_SUFFIXES,      val |-> ListV] >>

\* the keys of a dict kept as a list of [key, ...] entries
Keys(items) == {items[i].key : i \in 1..Len(items)}

\* d[key] for a key of the dict
Lookup(items, key) == items[CHOOSE i \in 1..Len(items) : items[i].key = key]

\* d[key] = value: in place for a key of the dict, else appended
DictSet(d, key, value) ==
    IF key \in Keys(d)
    THEN [i \in 1..Len(d) |-> IF d[i].key = key THEN [key |-> key, value |-> value] ELSE d[i]]
    ELSE Append(d, [key |-> key, value |-> value])

\* {**params, **params["VARS"]}: a user variable named like a field takes the
\* field's place, the other user variables follow
AllVars(p) ==
    LET fields == ParamItems(p)
        over   == [i \in 1..Len(fields) |->
                     IF fields[i].key \in Keys(p.VARS)
                     THEN [key |-> fields[i].key,
                           val |-> StrV(Lookup(p.VARS, fields[i].key).value)]
                     ELSE fields[i]]
        extra  == SelectSeq(p.VARS, LAMBDA e : e.key \notin Keys(fields))
    IN  over \o [i \in 1..Len(extra) |-> [key |-> extra[i].key, val |-> StrV(extra[i].value)]]

-----------------------------------------------------------------------------
(* parser/utils.py: variable substitution *)

K_DEST == <<"D", "E", "S", "T">>

RECURSIVE SubstituteFrom(_, _, _, _)
\* the loop over all_vars.items(), from item i on
SubstituteFrom(items, i, skip_set, string) ==
    IF i > Len(items) THEN Ok(string)
    ELSE LET k == items[i].key
             v == items[i].val
         IN  IF k \in skip_set \/ v.kind = "none"
             THEN SubstituteFrom(items, i + 1, skip_set, string)
             ELSE IF v.kind \notin {"str", "path", "enum"}
             THEN Raise("AssertionError")
             ELSE SubstituteFrom(items, i + 1, skip_set,
                                 Replace(string, <<"$">> \o k, v.text))

\* `$` followed by a capital letter: a variable reference left in a text
HasReference(string) ==
    \E i \in 1..(Len(string) - 1) :
        /\ string[i] = "$"
        /\ Ord("A") <= Ord(string[i + 1]) /\ Ord(string[i + 1]) <= Ord("Z")

\* the replacement of $DEST that ends fix_vars
ExpandDest(p, string) ==
    IF Contains(string, <<"$">> \o K_DEST)
    THEN Replace(string, <<"$">> \o K_DEST, p.NAME \o <<"-">> \o p.VERSION)
    ELSE string

\* a plausible change: a reference left after the substitution is an error
fix_vars_checked(p, string, skip) ==
    LET done == SubstituteFrom(AllVars(p), 1, skip \cup {K_VARS, K_SUFFIXES}, string) IN
    IF ~IsOk(done) THEN done
    ELSE IF HasReference(ExpandDest(p, done.val)) THEN Raise("VariableError")
    ELSE Ok(ExpandDest(p, done.val))

\* skip: a set of keys (None is the empty set)
fix_vars(p, string, skip) ==
    LET done == SubstituteFrom(AllVars(p), 1, skip \cup {K_VARS, K_SUFFIXES}, string) IN
    IF ~IsOk(done) THEN done
    ELSE Ok(ExpandDest(p, done.val))

-----------------------------------------------------------------------------
(* Specification of the substitution: a template of at most MaxPieces      *)
(* pieces of PiecePool is written, user variables of VarPool may be        *)
(* defined, then fix_vars is called with one of the skip sets its callers  *)
(* use (none, PKG, every key of Params).                                   *)

MaxPieces == 3

V_foo == <<"f", "o", "o">>
V_10  == <<"1", ".", "0">>

ExampleParams ==
    [ NAME          |-> V_foo,
      DIR           |-> "DEBS",
      REPO          |-> <<"/", "r">>,
      DOMAIN_       |-> <<"d", ".", "i", "o">>,
      MGR           |-> "APT",
      VERSION       |-> V_10,
      PKG           |-> NoneV,
      FILE          |-> NoneV,
      VARS          |-> <<>>,
      AUTHORIZATION |-> <<"t", "o", "k">>,
      STEM          |-> V_foo \o <<"|">> \o V_10 \o <<"|">> \o PackageManager.APT,
      SUFFIXES      |-> <<>> ]

R_NAME      == <<"$", "N", "A", "M", "E">>
R_VERSION   == <<"$", "V", "E", "R", "S", "I", "O", "N">>
R_UNKNOWN   == <<"$", "U", "N", "K", "N", "O", "W", "N">>
R_NAMESPACE == <<"$", "N", "A", "M", "E", "S", "P", "A", "C", "E">>
R_DEST      == <<"$", "D", "E", "S", "T">>
L_dash      == <<"-">>
L_tar       == <<".", "t", "a", "r">>

PiecePool == {R_NAME, R_VERSION, R_UNKNOWN, R_NAMESPACE, R_DEST, L_dash, L_tar}

K_NAMESPACE == <<"N", "A", "M", "E", "S", "P", "A", "C", "E">>

VarPool == { [key |-> K_NAMESPACE, value |-> <<"n", "s">>] }

SkipPool == { {}, {K_PKG}, Range(ParamKeys) }

\* fv_string holds the pieces written so far; the template is their join
Template == Flatten(fv_string)

FvInit ==
    /\ fv_params = ExampleParams
    /\ fv_string = <<>>
    /\ fv_out = NotCalled
    /\ fv_pc = "input"

WritePiece(piece) ==
    /\ fv_pc = "input"
    /\ Len(fv_string) < MaxPieces
    /\ fv_string' = Append(fv_string, piece)
    /\ UNCHANGED <<fv_params, fv_out, fv_pc>>
    /\ UNCHANGED notFv

DefineVar(v) ==
    /\ fv_pc = "input"
    /\ v.key \notin Keys(fv_params.VARS)
    /\ fv_params' = [fv_params EXCEPT !.VARS = DictSet(@, v.key, v.value)]
    /\ UNCHANGED <<fv_string, fv_out, fv_pc>>
    /\ UNCHANGED notFv

CallFixVars(skip) ==
    /\ fv_pc = "input"
    /\ fv_out' = [fix_vars(fv_params, Template, skip)
                    EXCEPT !.val = [skip |-> skip, out |-> @]]
    /\ fv_pc' = "done"
    /\ UNCHANGED <<fv_params, fv_string>>
    /\ UNCHANGED notFv

FvNext ==
    \/ \E piece \in PiecePool : WritePiece(piece)
    \/ \E v \in VarPool : DefineVar(v)
    \/ \E skip \in SkipPool : CallFixVars(skip)

InitFixVars == FvInit /\ ExtIdle /\ RlIdle /\ GhIdle /\ ParseIdle /\ MainIdle /\ FilterIdle

SpecFixVars == InitFixVars /\ [][FvNext]_vars

-----------------------------------------------------------------------------
(* Claims about the substitution (checked under SpecFixVars) *)

\* the keys fix_vars substitutes in a call: defined, not skipped, not None
Substituted(p, skip) ==
    {e.key : e \in {x \in Range(AllVars(p)) :
                       x.key \notin skip \cup {K_VARS, K_SUFFIXES} /\ x.val.kind # "none"}}

\* C3 as stated: fix_vars fails whenever the text still contains a $KEY
\* reference after substitution; it never returns such a text.
C3_AsStated ==
    fv_pc = "done" => (~IsOk(fv_out) \/ ~HasReference(fv_out.val.out))

\* C3, amended: fix_vars never fails, and a reference it does not resolve
\* stays in the returned text as literal text: a template containing
\* $UNKNOWN (no substituted key being a prefix of UNKNOWN) is returned with
\* $UNKNOWN still in it.
C3_UnresolvedLeftLiteral ==
    fv_pc = "done" =>
        /\ IsOk(fv_out)
        /\ ( /\ Contains(Template, R_UNKNOWN)
             /\ \A k \in Substituted(fv_params, fv_out.val.skip) \cup {K_DEST} :
                    ~StartsWith(Tail(R_UNKNOWN), k) )
               => Contains(fv_out.val.out, R_UNKNOWN)

C3_Witness ==
    /\ fv_pc = "done"
    /\ fv_string = <<R_NAME, L_dash, R_UNKNOWN>>
    /\ fv_out.val.skip = {}
    /\ fv_out = Ok([skip |-> {}, out |-> V_foo \o L_dash \o R_UNKNOWN])

-----------------------------------------------------------------------------
(* parser/cmds.py and parser/cmd_groups.py: the verbs *)

\* Command: every member's value is its name
Command ==
    { "CHOCO", "VERSION", "DOWNLOAD", "DOWNLOAD_GH", "DOWNLOAD_BROWSER",
      "SYMLINK_SRC", "COPY_SRC", "COPY", "COPY_FIX", "COPY_DIR", "COPY_GLOB",
      "SANDBOX", "RENAME", "SET", "EXTRACT", "CREATE_DEB", "BUILD_DEB", "CASK",
      "CONDA", "CONDA_BUILD", "MKDIR", "DH_DISABLE", "INCLUDE_BINARIES",
      "DOWNLOAD_REMOTE_NAME", "SET_NATIVE", "REMOVE" }

\* NUMBER_OF_ARGS: the argument counts each verb allows
NUMBER_OF_ARGS ==
    [ CHOCO |-> {0}, VERSION |-> {1}, DOWNLOAD |-> {1},
      DOWNLOAD_REMOTE_NAME |-> {1}, DOWNLOAD_GH |-> {2, 3},
      DOWNLOAD_BROWSER |-> {1}, SYMLINK_SRC |-> {1}, COPY_SRC |-> {1},
      COPY |-> {2}, COPY_FIX |-> {2}, COPY_DIR |-> {2}, COPY_GLOB |-> {3},
      SANDBOX |-> {0}, MKDIR |-> {1}, RENAME |-> {1}, SET |-> {2},
      EXTRACT |-> {0, 1}, CREATE_DEB |-> {0, 1}, BUILD_DEB |-> {0},
      CASK |-> {1}, CONDA |-> {0}, CONDA_BUILD |-> {0}, DH_DISABLE |-> {1},
      INCLUDE_BINARIES |-> {0}, SET_NATIVE |-> {0}, REMOVE |-> {1} ]

check_number_of_args(cmd, args) ==
    IF Len(args) \in NUMBER_OF_ARGS[cmd] THEN Ok(<<>>) ELSE Raise("ValueError")

DOWNLOAD_CMDS ==
    { "DOWNLOAD", "DOWNLOAD_REMOTE_NAME", "DOWNLOAD_BROWSER", "DOWNLOAD_GH",
      "SYMLINK_SRC", "COPY_SRC" }

UNIQUE_CMDS ==
    { "VERSION", "SANDBOX", "CREATE_DEB", "BUILD_DEB", "CASK", "CONDA" }

from_file(cmd) == cmd \in {"DOWNLOAD", "DOWNLOAD_BROWSER", "DOWNLOAD_REMOTE_NAME"}

\* A command is a record [cmd, args]: the verb and the list of its arguments.
Cmd(c, a) == [cmd |-> c, args |-> a]

\* [x[0] for x in cmds]
ActualCmds(cmds) == [i \in 1..Len(cmds) |-> cmds[i].cmd]

\* Counter(actual_cmds)[cmd]
Count(cmds, c) == Cardinality({i \in 1..Len(cmds) : cmds[i].cmd = c})

parse_single_cmd(cmd) ==
    IF cmd \notin Command THEN Raise("UnknownCommandError")
    ELSE IF cmd = "CONDA_BUILD" THEN Raise("ParsingError")
    ELSE Ok(cmd)

\* the first exception a list of outcomes holds, in list order
FirstFailure(outs) ==
    IF \E i \in 1..Len(outs) : ~IsOk(outs[i])
    THEN outs[CHOOSE i \in 1..Len(outs) :
                /\ ~IsOk(outs[i])
                /\ \A j \in 1..(i - 1) : IsOk(outs[j])]
    ELSE Ok(<<>>)

\* parse_cmds after read_lines: every verb is looked up, then every argument
\* count is checked
parse_cmds(ls) ==
    LET verbs == FirstFailure([i \in 1..Len(ls) |-> parse_single_cmd(ls[i].cmd)])
        arity == FirstFailure([i \in 1..Len(ls) |->
                                 check_number_of_args(ls[i].cmd, ls[i].args)])
    IN  IF ~IsOk(verbs) THEN verbs
        ELSE IF ~IsOk(arity) THEN arity
        ELSE Ok(ls)

-----------------------------------------------------------------------------
(* parser/utils.py: the version a regular expression reads from a file     *)
(* name.  Of the pattern language: literal characters, the escapes \d and  *)
(* \<character>, the wildcard ".", one-or-more "+" and groups.             *)

RECURSIVE RxCompile(_, _)
\* re.compile: the pattern as a list of atoms and group marks
RxCompile(pat, i) ==
    IF i > Len(pat) THEN <<>>
    ELSE IF pat[i] = "(" THEN <<[kind |-> "open", ch |-> "", plus |-> FALSE]>> \o RxCompile(pat, i + 1)
    ELSE IF pat[i] = ")" THEN <<[kind |-> "close", ch |-> "", plus |-> FALSE]>> \o RxCompile(pat, i + 1)
    ELSE
      LET escaped == pat[i] = "\\" /\ i < Len(pat)
          last    == IF escaped THEN i + 1 ELSE i
          kind    == IF escaped /\ pat[last] = "d" THEN "digit"
                     ELSE IF ~escaped /\ pat[i] = "." THEN "any"
                     ELSE "lit"
          plus    == last < Len(pat) /\ pat[last + 1] = "+"
      IN  <<[kind |-> kind, ch |-> pat[last], plus |-> plus]>>
            \o RxCompile(pat, IF plus THEN last + 2 ELSE last + 1)

RxAccepts(atom, c) ==
    CASE atom.kind = "digit" -> IsDigit(c)
      [] atom.kind = "any"   -> c # "\n"
      [] OTHER               -> c = atom.ch

RECURSIVE RxRun(_, _, _)
\* how many characters from position si on the atom accepts in a row
RxRun(atom, s, si) ==
    IF si <= Len(s) /\ RxAccepts(atom, s[si]) THEN 1 + RxRun(atom, s, si + 1) ELSE 0

RECURSIVE RxMatch(_, _, _, _, _)
RECURSIVE RxRepeat(_, _, _, _, _, _)
\* pattern.match: the atoms from ti on against s from si on; g is the span
\* of group 1 seen so far, <<first, one past last>>
RxMatch(atoms, ti, s, si, g) ==
    IF ti > Len(atoms) THEN [ok |-> TRUE, g |-> g]
    ELSE LET atom == atoms[ti] IN
         IF atom.kind = "open" THEN RxMatch(atoms, ti + 1, s, si, <<si, g[2]>>)
         ELSE IF atom.kind = "close" THEN RxMatch(atoms, ti + 1, s, si, <<g[1], si>>)
         ELSE IF atom.plus THEN RxRepeat(atoms, ti, s, si, RxRun(atom, s, si), g)
         ELSE IF si <= Len(s) /\ RxAccepts(atom, s[si])
         THEN RxMatch(atoms, ti + 1, s, si + 1, g)
         ELSE [ok |-> FALSE, g |-> g]

\* greedy repetition: k characters, then fewer
RxRepeat(atoms, ti, s, si, k, g) ==
    IF k < 1 THEN [ok |-> FALSE, g |-> g]
    ELSE LET rest == RxMatch(atoms, ti + 1, s, si + k, g) IN
         IF rest.ok THEN rest ELSE RxRepeat(atoms, ti, s, si, k - 1, g)

RE_PREFIX == <<"r", "e", ":">>

GH_PREFIX == <<"g", "h", ":">>

\* the archive suffixes adjust_regex_version removes from the file name
ARCHIVE_SUFFIXES ==
    << <<".", "t", "a", "r">>, <<".", "g", "z">>, <<".", "t", "g", "z">>,
       <<".", "b", "z", "2">>, <<".", "t", "b", "z", "2">> >>

RECURSIVE StripArchiveSuffixes(_, _)
StripArchiveSuffixes(filename, i) ==
    IF i > Len(ARCHIVE_SUFFIXES) THEN filename
    ELSE StripArchiveSuffixes(Replace(filename, ARCHIVE_SUFFIXES[i], <<>>), i + 1)

\* version_match.group(1) of the match m in the text s
GroupOne(s, m) ==
    IF ~m.ok THEN Raise("ValueError")
    ELSE IF m.g[1] = 0 \/ m.g[2] = 0 THEN Raise("IndexError")
    ELSE Ok(SubSeq(s, m.g[1], m.g[2] - 1))

\* pattern.match(s) for the compiled pattern atoms
Match(atoms, s) == GroupOne(s, RxMatch(atoms, 1, s, 1, <<0, 0>>))

adjust_regex_version(version, filename) ==
    IF ~StartsWith(version, RE_PREFIX) THEN Raise("ValueError")
    ELSE Match(RxCompile(RemovePrefix(version, RE_PREFIX), 1),
               StripArchiveSuffixes(filename, 1))

-----------------------------------------------------------------------------
(* parser/parse.py: the checks every recipe passes through.  The network   *)
(* a load sees is a record net: remote_filename, the file name the server  *)
(* of a download announces (<<>> if it announces none), and release_data,  *)
(* the releases of the GitHub repository.                                  *)

\* s.split(ch, maxsplit=1)
SplitOnce(s, ch) ==
    IF \E i \in 1..Len(s) : s[i] = ch
    THEN LET i == CHOOSE k \in 1..Len(s) : s[k] = ch /\ \A j \in 1..(k - 1) : s[j] # ch
         IN  << SubSeq(s, 1, i - 1), SubSeq(s, i + 1, Len(s)) >>
    ELSE << s >>

get_name(cmd, url, net) ==
    IF cmd = "DOWNLOAD_REMOTE_NAME"
    THEN IF net.remote_filename = <<>> THEN Raise("HeaderError")
         ELSE Ok(net.remote_filename)
    ELSE IF cmd = "DOWNLOAD_BROWSER"
    THEN IF net.remote_filename = <<>> THEN Ok(FAILED_DOWNLOAD.text)
         ELSE Then(filter_exts(Suffixes(net.remote_filename)),
                   LAMBDA exts : Ok(net.remote_filename))
    ELSE Raise("ValueError")

\* the end of get_version_from_download, from the file name on
VersionFromName(orig_version, filename) ==
    IF filename = FAILED_DOWNLOAD.text THEN Raise("ParsingError")
    ELSE Then(adjust_regex_version(orig_version, filename),
              LAMBDA version : Ok([version |-> version, suffixes |-> Suffixes(filename)]))

\* a plausible change: a plain DOWNLOAD reads the version from its URL
get_version_from_download_url(orig_version, download_cmds, net) ==
    IF download_cmds = <<>> THEN Raise("ParsingError")
    ELSE IF ~from_file(download_cmds[1].cmd) THEN Raise("ParsingError")
    ELSE Then(IF download_cmds[1].cmd = "DOWNLOAD"
              THEN Ok(PathName(download_cmds[1].args[1]))
              ELSE get_name(download_cmds[1].cmd, download_cmds[1].args[1], net),
              LAMBDA filename : VersionFromName(orig_version, filename))

\* download_cmds: the download commands of the recipe (download_cmd is the
\* first of them, None if there is none)
get_version_from_download(orig_version, download_cmds, net) ==
    IF download_cmds = <<>> THEN Raise("ParsingError")
    ELSE IF ~from_file(download_cmds[1].cmd) THEN Raise("ParsingError")
    ELSE IF download_cmds[1].cmd = "DOWNLOAD" THEN Raise("ParsingError")
    ELSE Then(get_name(download_cmds[1].cmd, download_cmds[1].args[1], net),
              LAMBDA filename : VersionFromName(orig_version, filename))

K_TAP_FILE == <<"T", "A", "P", "_", "F", "I", "L", "E">>
K_CHOCO_FILE == <<"C", "H", "O", "C", "O", "_", "F", "I", "L", "E">>

\* the keys filter_cmds refuses in a SET command: the two sets it tests
UnsettableParameterKeys ==
    {K_NAME, K_DIR, K_REPO, K_DOMAIN, K_VERSION, K_PKG, K_FILE}

UnsettableInternalKeys ==
    {K_VARS, K_DEST, K_TAP_FILE, K_CHOCO_FILE, K_AUTHORIZATION}

\* the GitHub branches of filter_cmds: gh_args is [repo, pattern] or
\* [repo, pattern, tag], pattern <<>> standing for None
VersionFromGithub(gh_args, net, keep_suffixes) ==
    Then(get_version_from_github(net.release_data, gh_args[2],
                                 IF Len(gh_args) > 2 THEN gh_args[3] ELSE <<>>),
         LAMBDA found : Ok([ version  |-> found.version,
                             suffixes |-> IF keep_suffixes THEN found.suffixes ELSE <<>> ]))

\* the argument of VERSION, resolved
VersionFromArgument(version, download_cmds, net) ==
    IF StartsWith(version, GH_PREFIX)
    THEN VersionFromGithub(SplitOnce(RemovePrefix(version, GH_PREFIX), ":") \o << <<>> >>,
                           net, TRUE)
    ELSE IF StartsWith(version, RE_PREFIX)
    THEN get_version_from_download(version, download_cmds, net)
    ELSE Ok([version |-> version, suffixes |-> <<>>])

\* a plausible change: VERSION is accepted next to a DOWNLOAD_GH
ResolveVersionLax(cmds, download_cmds, net) ==
    IF Count(cmds, "VERSION") > 0
    THEN IF cmds[1].cmd # "VERSION" THEN Raise("ParsingError")
         ELSE VersionFromArgument(cmds[1].args[1], download_cmds, net)
    ELSE IF download_cmds = <<>> \/ download_cmds[1].cmd # "DOWNLOAD_GH"
         THEN Raise("ParsingError")
         ELSE VersionFromGithub(download_cmds[1].args, net, FALSE)

\* the version and the suffixes the head of the recipe resolves to
ResolveVersion(cmds, download_cmds, net) ==
    IF Count(cmds, "VERSION") > 0
    THEN IF cmds[1].cmd # "VERSION" THEN Raise("ParsingError")
         ELSE IF download_cmds # <<>> /\ download_cmds[1].cmd = "DOWNLOAD_GH"
         THEN Raise("ParsingError")
         ELSE VersionFromArgument(cmds[1].args[1], download_cmds, net)
    ELSE IF download_cmds = <<>> \/ download_cmds[1].cmd # "DOWNLOAD_GH"
         THEN Raise("ParsingError")
         ELSE VersionFromGithub(download_cmds[1].args, net, FALSE)

\* a plausible change: the place and the keys of the SET commands are not
\* compared with each other
CheckLayoutAnySet(cmds, resolved) ==
    LET version_ix == IF Count(cmds, "VERSION") > 0 THEN 1 ELSE 0
        sandbox    == Count(cmds, "SANDBOX") > 0
        first_ix   == IF sandbox THEN version_ix + 1 ELSE version_ix
        cask       == Count(cmds, "CASK") > 0
        rest       == SubSeq(cmds, first_ix + 1, Len(cmds))
        set_ix     == {i \in 1..Len(rest) : rest[i].cmd = "SET"}
        set_keys   == {rest[i].args[1] : i \in set_ix}
    IN  IF sandbox /\ cmds[version_ix + 1].cmd # "SANDBOX" THEN Raise("ParsingError")
        ELSE IF set_keys \cap (UnsettableParameterKeys \cup UnsettableInternalKeys) # {}
        THEN Raise("ParsingError")
        ELSE IF ~sandbox /\ cask THEN Raise("AttributeError")
        ELSE IF ~sandbox /\ \E i \in 1..Len(cmds) : cmds[i].cmd = "MKDIR"
        THEN Raise("ParsingError")
        ELSE Ok([ version    |-> resolved.version,
                  suffixes   |-> resolved.suffixes,
                  target_dir |-> IF sandbox THEN "TMP" ELSE "DEBS",
                  cmds       |-> rest ])

\* a plausible change: SANDBOX is accepted wherever it stands
CheckLayoutAnySandbox(cmds, resolved) ==
    LET version_ix == IF Count(cmds, "VERSION") > 0 THEN 1 ELSE 0
        sandbox    == Count(cmds, "SANDBOX") > 0
        first_ix   == IF sandbox THEN version_ix + 1 ELSE version_ix
        cask       == Count(cmds, "CASK") > 0
        rest       == SubSeq(cmds, first_ix + 1, Len(cmds))
        set_ix     == {i \in 1..Len(rest) : rest[i].cmd = "SET"}
        set_keys   == {rest[i].args[1] : i \in set_ix}
    IN  IF set_ix # 1..Cardinality(set_ix) THEN Raise("ParsingError")
        ELSE IF Cardinality(set_keys) # Cardinality(set_ix) THEN Raise("ParsingError")
        ELSE IF set_keys \cap (UnsettableParameterKeys \cup UnsettableInternalKeys) # {}
        THEN Raise("ParsingError")
        ELSE IF ~sandbox /\ cask THEN Raise("AttributeError")
        ELSE IF ~sandbox /\ \E i \in 1..Len(cmds) : cmds[i].cmd = "MKDIR"
        THEN Raise("ParsingError")
        ELSE Ok([ version    |-> resolved.version,
                  suffixes   |-> resolved.suffixes,
                  target_dir |-> IF sandbox THEN "TMP" ELSE "DEBS",
                  cmds       |-> rest ])

\* filter_cmds from the SANDBOX check on.  The value: [version, suffixes,
\* target_dir, cmds]
CheckLayout(cmds, resolved) ==
    LET version_ix == IF Count(cmds, "VERSION") > 0 THEN 1 ELSE 0
        sandbox    == Count(cmds, "SANDBOX") > 0
        first_ix   == IF sandbox THEN version_ix + 1 ELSE version_ix
        cask       == Count(cmds, "CASK") > 0
        rest       == SubSeq(cmds, first_ix + 1, Len(cmds))
        set_ix     == {i \in 1..Len(rest) : rest[i].cmd = "SET"}
        set_keys   == {rest[i].args[1] : i \in set_ix}
    IN  IF sandbox /\ cmds[version_ix + 1].cmd # "SANDBOX" THEN Raise("ParsingError")
        ELSE IF set_ix # 1..Cardinality(set_ix) THEN Raise("ParsingError")
        ELSE IF Cardinality(set_keys) # Cardinality(set_ix) THEN Raise("ParsingError")
        ELSE IF set_keys \cap (UnsettableParameterKeys \cup UnsettableInternalKeys) # {}
        THEN Raise("ParsingError")
        ELSE IF ~sandbox /\ cask THEN Raise("AttributeError")
        ELSE IF ~sandbox /\ \E i \in 1..Len(cmds) : cmds[i].cmd = "MKDIR"
        THEN Raise("ParsingError")
        ELSE Ok([ version    |-> resolved.version,
                  suffixes   |-> resolved.suffixes,
                  target_dir |-> IF sandbox THEN "TMP" ELSE "DEBS",
                  cmds       |-> rest ])

\* [(cmd, args) for cmd, args in cmds if cmd in DOWNLOAD_CMDS]
DownloadCmds(cmds) == SelectSeq(cmds, LAMBDA c : c.cmd \in DOWNLOAD_CMDS)

\* a plausible change: the counts of the commands are not checked
filter_cmdsUncounted(cmds, net) ==
    Then(ResolveVersion(cmds, DownloadCmds(cmds), net),
         LAMBDA resolved : CheckLayout(cmds, resolved))

filter_cmds(cmds, net) ==
    IF \E c \in UNIQUE_CMDS : Count(cmds, c) > 1 THEN Raise("ParsingError")
    ELSE IF Len(DownloadCmds(cmds)) > 1 THEN Raise("ParsingError")
    ELSE Then(ResolveVersion(cmds, DownloadCmds(cmds), net),
              LAMBDA resolved : CheckLayout(cmds, resolved))

-----------------------------------------------------------------------------
(* parser/parse.py: the checks of each package manager and parse_tool.     *)
(* A tool is a record [name, suffix, is_dir]: an entry name.suffix of the  *)
(* configs folder, a recipe file or a package folder holding one.  The     *)
(* files of a package folder are taken to be laid out as its manager       *)
(* requires.                                                               *)

X_rep   == <<".", "r", "e", "p">>
X_conda == <<".", "c", "o", "n", "d", "a">>
X_choco == <<".", "c", "h", "o", "c", "o">>
X_tap   == <<".", "t", "a", "p">>

\* the value: the package manager's member name
parse_tool_structure(tool) ==
    IF tool.is_dir /\ tool.suffix \notin {X_conda, X_rep, X_choco}
    THEN Raise("StructureError")
    ELSE IF tool.suffix = X_choco THEN Ok("CHOCO")
    ELSE IF tool.suffix = X_rep THEN Ok("APT")
    ELSE IF tool.suffix = X_conda THEN Ok("CONDA")
    ELSE IF tool.suffix = X_tap THEN Ok("BREW")
    ELSE Raise("CustomRepoError")

DH_USRLOCAL == <<"d", "h", "_", "u", "s", "r", "l", "o", "c", "a", "l">>

\* a plausible change: the place of the DH_DISABLE commands is not checked
parse_apt_fileAnyPlace(params, cmds) ==
    LET actual       == Range(ActualCmds(cmds))
        pkg          == params.PKG # NoneV
        not_allowed  == {"CASK", "CONDA"} \cup
                        (IF pkg THEN {} ELSE {"CREATE_DEB", "BUILD_DEB", "DH_DISABLE"})
        n            == Len(cmds)
        disable_ix   == {i \in 1..n : cmds[i].cmd = "DH_DISABLE"}
        disable_args == {cmds[i].args[1] : i \in disable_ix}
    IN  IF actual \cap DOWNLOAD_CMDS = {} THEN Raise("ParsingError")
        ELSE IF actual \cap not_allowed # {} THEN Raise("ParsingError")
        ELSE IF ~pkg THEN Ok([params |-> params, cmds |-> cmds])
        ELSE IF params.DIR # "TMP" THEN Raise("ParsingError")
        ELSE IF {"CREATE_DEB", "BUILD_DEB"} \ actual # {} THEN Raise("ParsingError")
        ELSE IF cmds[n].cmd # "BUILD_DEB" THEN Raise("ParsingError")
        ELSE IF disable_ix = {} THEN Ok([params |-> params, cmds |-> cmds])
        ELSE IF Cardinality(disable_args) # Cardinality(disable_ix) THEN Raise("ParsingError")
        ELSE IF disable_args \ {DH_USRLOCAL} # {} THEN Raise("ValueError")
        ELSE Ok([params |-> params, cmds |-> cmds])

\* the value of each parse_<manager>_file: [params, cmds]
parse_apt_file(params, cmds) ==
    LET actual       == Range(ActualCmds(cmds))
        pkg          == params.PKG # NoneV
        not_allowed  == {"CASK", "CONDA"} \cup
                        (IF pkg THEN {} ELSE {"CREATE_DEB", "BUILD_DEB", "DH_DISABLE"})
        n            == Len(cmds)
        disable_ix   == {i \in 1..n : cmds[i].cmd = "DH_DISABLE"}
        disable_args == {cmds[i].args[1] : i \in disable_ix}
        should_range == (n - Cardinality(disable_ix))..(n - 1)
    IN  IF actual \cap DOWNLOAD_CMDS = {} THEN Raise("ParsingError")
        ELSE IF actual \cap not_allowed # {} THEN Raise("ParsingError")
        ELSE IF ~pkg THEN Ok([params |-> params, cmds |-> cmds])
        ELSE IF params.DIR # "TMP" THEN Raise("ParsingError")
        ELSE IF {"CREATE_DEB", "BUILD_DEB"} \ actual # {} THEN Raise("ParsingError")
        ELSE IF cmds[n].cmd # "BUILD_DEB" THEN Raise("ParsingError")
        ELSE IF disable_ix = {} THEN Ok([params |-> params, cmds |-> cmds])
        ELSE IF disable_ix # should_range THEN Raise("ParsingError")
        ELSE IF Cardinality(disable_args) # Cardinality(disable_ix) THEN Raise("ParsingError")
        ELSE IF disable_args \ {DH_USRLOCAL} # {} THEN Raise("ValueError")
        ELSE Ok([params |-> params, cmds |-> cmds])

L_pkg_recipe == <<"$", "P", "K", "G", "/", "r", "e", "c", "i", "p", "e">>
L_recipe     == <<"r", "e", "c", "i", "p", "e">>

\* a plausible change: the commands are returned as they were written
parse_conda_fileAsWritten(params, cmds) ==
    IF params.VERSION = <<>> THEN Raise("ParsingError")
    ELSE IF Len(cmds) \notin {1, 2} THEN Raise("ParsingError")
    ELSE IF params.PKG = NoneV THEN Raise("StructureError")
    ELSE IF Len(cmds) = 2 /\ cmds[1].cmd \notin DOWNLOAD_CMDS THEN Raise("ParsingError")
    ELSE IF cmds[Len(cmds)].cmd # "CONDA" THEN Raise("ParsingError")
    ELSE Ok([params |-> [params EXCEPT !.DIR = "TMP"], cmds |-> cmds])

parse_conda_file(params, cmds) ==
    IF params.VERSION = <<>> THEN Raise("ParsingError")
    ELSE IF Len(cmds) \notin {1, 2} THEN Raise("ParsingError")
    ELSE IF params.PKG = NoneV THEN Raise("StructureError")
    ELSE IF Len(cmds) = 2 /\ cmds[1].cmd \notin DOWNLOAD_CMDS THEN Raise("ParsingError")
    ELSE IF cmds[Len(cmds)].cmd # "CONDA" THEN Raise("ParsingError")
    ELSE Ok([ params |-> [params EXCEPT !.DIR = "TMP"],
              cmds   |-> SubSeq(cmds, 1, Len(cmds) - 1)
                           \o << Cmd("COPY_DIR", <<L_pkg_recipe, L_recipe>>),
                                 Cmd("CONDA_BUILD", <<>>) >> ])

parse_tap_file(params, cmds) ==
    LET actual == Range(ActualCmds(cmds)) IN
    IF params.PKG # NoneV THEN Raise("StructureError")
    ELSE IF actual \ (DOWNLOAD_CMDS \cup {"CASK"}) # {} THEN Raise("ParsingError")
    ELSE IF "CASK" \notin actual THEN Raise("ParsingError")
    ELSE IF cmds[Len(cmds)].cmd # "CASK" THEN Raise("ParsingError")
    ELSE IF /\ Contains(cmds[Len(cmds)].args[1], <<"$">> \o K_TAP_FILE)
            /\ actual \cap DOWNLOAD_CMDS = {}
    THEN Raise("ParsingError")
    ELSE Ok([params |-> params, cmds |-> cmds])

parse_choco_file(params, cmds) ==
    IF params.VERSION = <<>> THEN Raise("ParsingError")
    ELSE IF Len(cmds) \notin {1, 2} THEN Raise("ParsingError")
    ELSE IF params.PKG = NoneV THEN Raise("StructureError")
    ELSE IF cmds[Len(cmds)].cmd # "CHOCO" THEN Raise("ParsingError")
    ELSE Ok([params |-> [params EXCEPT !.DIR = "TMP"], cmds |-> cmds])

REPO_PATH     == <<"/", "r">>
DOMAIN_NAME   == <<"d", ".", "i", "o">>
AUTH_TOKEN    == <<"t", "o", "k">>
CONFIGS_PATH  == REPO_PATH \o <<"/", "c", "o", "n", "f", "i", "g", "s">>

\* a plausible change: the stem is made of the name and the version only
NewParamsShortStem(tool, pkg_mgr, checked, exts) ==
    [ NAME          |-> tool.name,
      DIR           |-> checked.target_dir,
      REPO          |-> REPO_PATH,
      DOMAIN_       |-> DOMAIN_NAME,
      MGR           |-> pkg_mgr,
      VERSION       |-> checked.version,
      PKG           |-> IF tool.is_dir
                        THEN PathV(CONFIGS_PATH \o <<"/">> \o tool.name \o tool.suffix)
                        ELSE NoneV,
      FILE          |-> NoneV,
      VARS          |-> <<>>,
      AUTHORIZATION |-> AUTH_TOKEN,
      STEM          |-> tool.name \o <<"|">> \o checked.version,
      SUFFIXES      |-> exts ]

\* the dict parse_tool builds
NewParams(tool, pkg_mgr, checked, exts) ==
    [ NAME          |-> tool.name,
      DIR           |-> checked.target_dir,
      REPO          |-> REPO_PATH,
      DOMAIN_       |-> DOMAIN_NAME,
      MGR           |-> pkg_mgr,
      VERSION       |-> checked.version,
      PKG           |-> IF tool.is_dir
                        THEN PathV(CONFIGS_PATH \o <<"/">> \o tool.name \o tool.suffix)
                        ELSE NoneV,
      FILE          |-> NoneV,
      VARS          |-> <<>>,
      AUTHORIZATION |-> AUTH_TOKEN,
      STEM          |-> tool.name \o <<"|">> \o checked.version
                          \o <<"|">> \o PackageManager[pkg_mgr],
      SUFFIXES      |-> exts ]

\* the branch on the package manager that ends parse_tool
ParseFile(pkg_mgr, params, cmds) ==
    CASE pkg_mgr = "CHOCO" -> parse_choco_file(params, cmds)
      [] pkg_mgr = "CONDA" -> parse_conda_file(params, cmds)
      [] pkg_mgr = "APT"   -> parse_apt_file(params, cmds)
      [] pkg_mgr = "BREW"  -> parse_tap_file(params, cmds)

\* ls: the lines of the recipe file as read_lines returns them.
\* The value: [params, cmds]
parse_tool(tool, ls, net) ==
    Then(parse_tool_structure(tool), LAMBDA pkg_mgr :
    Then(parse_cmds(ls), LAMBDA cmds :
    Then(filter_cmds(cmds, net), LAMBDA checked :
    Then(filter_exts(checked.suffixes), LAMBDA exts :
         ParseFile(pkg_mgr, NewParams(tool, pkg_mgr, checked, exts), checked.cmds)))))

-----------------------------------------------------------------------------
(* Specification of the load of one recipe: a recipe of at most MaxCmds    *)
(* commands of CmdPool is written, then parse_tool is called for it as the *)
(* recipe of one of the tools of ToolPool, on a network that announces one *)
(* of the file names of RemotePool.                                        *)

MaxCmds == 4

V_12 == <<"1", ".", "2">>

V_regex == <<"r", "e", ":", "x", "-", "(", "\\", "d", "+", "\\", ".", "\\", "d", "+", ")">>

U_example ==
    <<"h", "t", "t", "p", "s", ":", "/", "/", "e", "x", "a", "m", "p", "l", "e", ".",
      "c", "o", "m", "/", "x", "-", "1", ".", "2", ".", "t", "a", "r", ".", "g", "z">>

F_x12 == <<"x", "-", "1", ".", "2", ".", "t", "a", "r", ".", "g", "z">>

C_version     == Cmd("VERSION", <<V_10>>)
C_version_re  == Cmd("VERSION", <<V_regex>>)
C_sandbox     == Cmd("SANDBOX", <<>>)
C_set_mgr     == Cmd("SET", <<K_MGR, <<"x">>>>)
C_download    == Cmd("DOWNLOAD", <<U_example>>)
C_remote_name == Cmd("DOWNLOAD_REMOTE_NAME", <<U_example>>)
C_cask        == Cmd("CASK", <<<<"c", "a", "s", "k">>>>)
C_choco       == Cmd("CHOCO", <<>>)
C_conda       == Cmd("CONDA", <<>>)

CmdPool ==
    { C_version, C_version_re, C_sandbox, C_set_mgr, C_download, C_remote_name,
      C_cask, C_choco, C_conda }

ToolPool ==
    [ name : {<<"x">>}, suffix : {X_rep, X_conda, X_choco, X_tap}, is_dir : BOOLEAN ]

RemotePool == { F_x12, <<>> }

Network(remote) == [remote_filename |-> remote, release_data |-> <<>>]

ParseInit ==
    /\ recipe = <<>>
    /\ parse_out = NotCalled
    /\ parse_pc = "input"

WriteCommand(c) ==
    /\ parse_pc = "input"
    /\ Len(recipe) < MaxCmds
    /\ recipe' = Append(recipe, c)
    /\ UNCHANGED <<parse_out, parse_pc>>
    /\ UNCHANGED notParse

ParseTool(tool, remote) ==
    /\ parse_pc = "input"
    /\ LET out == parse_tool(tool, recipe, Network(remote)) IN
       parse_out' = [ exc |-> out.exc,
                      val |-> [tool |-> tool, remote |-> remote, out |-> out.val] ]
    /\ parse_pc' = "done"
    /\ UNCHANGED recipe
    /\ UNCHANGED notParse

ParseNext ==
    \/ \E c \in CmdPool : WriteCommand(c)
    \/ \E tool \in ToolPool, remote \in RemotePool : ParseTool(tool, remote)

InitParse == ParseInit /\ ExtIdle /\ RlIdle /\ GhIdle /\ FvIdle /\ MainIdle /\ FilterIdle

SpecParse == InitParse /\ [][ParseNext]_vars

-----------------------------------------------------------------------------
(* Claims about the load of one recipe *)

ParseDone == parse_pc = "done"

Accepted == ParseDone /\ IsOk(parse_out)

\* the tool parse_tool was called for is an apt recipe
AptTool == parse_out.val.tool.suffix = X_rep

\* the suffixes filter_exts keeps of x-1.2.tar.gz
TAR_GZ == << <<".", "t", "a", "r">>, <<".", "g", "z">> >>

\* C4 as stated: an apt recipe with the regular expression x-(\d+\.\d+) as
\* VERSION and a plain DOWNLOAD of https://example.com/x-1.2.tar.gz is
\* accepted and its version is 1.2.
C4_AsStated ==
    (ParseDone /\ AptTool /\ recipe = <<C_version_re, C_download>>)
        => (IsOk(parse_out) /\ parse_out.val.out.params.VERSION = V_12)

\* C4: an apt recipe whose VERSION is a regular expression and whose
\* download is a plain DOWNLOAD is rejected with a ParsingError; with
\* DOWNLOAD_REMOTE_NAME, and the file name x-1.2.tar.gz announced for the
\* URL, the recipe file is accepted, its version is 1.2 and its suffixes are
\* .tar and .gz.
C4_RegexNeedsAnnouncedName ==
    /\ (/\ ParseDone /\ AptTool
        /\ recipe # <<>> /\ recipe[1] = C_version_re
        /\ C_download \in Range(recipe))
          => parse_out.exc = "ParsingError"
    /\ (/\ ParseDone /\ AptTool /\ ~parse_out.val.tool.is_dir
        /\ recipe = <<C_version_re, C_remote_name>>
        /\ parse_out.val.remote = F_x12)
          => /\ IsOk(parse_out)
             /\ parse_out.val.out.params.VERSION = V_12
             /\ parse_out.val.out.params.SUFFIXES = TAR_GZ

C4_Witness ==
    /\ ParseDone /\ AptTool
    /\ recipe = <<C_version_re, C_download>>
    /\ parse_out.exc = "ParsingError"

\* C5: in every recipe parse_tool accepts, whatever the package manager, a
\* CASK command, if there is one, is the last command.
C5_CaskLast ==
    Accepted =>
        LET cmds == parse_out.val.out.cmds IN
        (\E i \in 1..Len(cmds) : cmds[i].cmd = "CASK")
            => cmds[Len(cmds)].cmd = "CASK"

\* the names C6 lists: the fields of Params and the internal names
ReservedNames == Range(ParamKeys) \cup {K_DEST, K_TAP_FILE, K_CHOCO_FILE}

\* C6: a recipe with a SET command whose key is a field of Params or an
\* internal name is rejected.
C6_ReservedKeysRejected ==
    (ParseDone /\ \E i \in 1..Len(recipe) :
                     recipe[i].cmd = "SET" /\ recipe[i].args[1] \in ReservedNames)
        => ~IsOk(parse_out)

-----------------------------------------------------------------------------
(* impl/: the command handlers.  What a handler leaves is a record: the    *)
(* exception it raised ("none" if it returned), the build context as it    *)
(* left it (handlers change params in place) and the names of the files it *)
(* wrote into the working directory.  The web a handler sees is a record:  *)
(* status_ok, whether the server answers the download with a success       *)
(* status, and remote_filename, the file name a browser download suggests  *)
(* (<<>> if the download does not start).  The handlers of SET, DOWNLOAD,  *)
(* DOWNLOAD_REMOTE_NAME and DOWNLOAD_BROWSER are modelled.                 *)

\* what a handler left: the exception it raised ("none" if it returned), the
\* context as it mutated it, the names it created in the working directory
\* and the names it removed there
Returned(p, w) == [exc |-> "none", params |-> p, written |-> w, removed |-> {}]

Raised(e, p) == [exc |-> e, params |-> p, written |-> {}, removed |-> {}]

\* the keys of IMPLEMENTATIONS
IMPLEMENTATIONS ==
    { "EXTRACT", "MKDIR", "RENAME", "CASK", "SET", "COPY", "COPY_FIX", "COPY_DIR",
      "COPY_GLOB", "COPY_SRC", "SYMLINK_SRC", "DOWNLOAD", "DOWNLOAD_GH",
      "DOWNLOAD_REMOTE_NAME", "DOWNLOAD_BROWSER", "CREATE_DEB", "BUILD_DEB",
      "DH_DISABLE", "INCLUDE_BINARIES", "SET_NATIVE", "CONDA_BUILD", "CHOCO",
      "REMOVE" }

\* set_cmd from the checks of the substituted value on
StoreVar(params, key, fixed) ==
    IF ~IsOk(fixed) THEN Raised(fixed.exc, params)
    ELSE IF \E k \in Range(ParamKeys) : Contains(fixed.val, <<"$">> \o k)
    THEN Raised("VariableError", params)
    ELSE IF Contains(fixed.val, <<"$">>) THEN Raised("VariableError", params)
    ELSE Returned([params EXCEPT !.VARS = DictSet(@, key, fixed.val)], {})

set_cmd(params, args) ==
    StoreVar(params, args[1],
             fix_vars(params,
                      Replace(Replace(args[2], R_NAME, params.NAME),
                              R_VERSION, params.VERSION),
                      Range(ParamKeys)))

\* the path DirContext gives for a kind of working directory
WdPath(dir) ==
    IF dir = "TMP"
    THEN REPO_PATH \o <<"/", "t", "m", "p", "_", "D", "i", "r", "C", "o", "n", "t", "e", "x", "t", "_">>
    ELSE IF dir = "tmp_from_github"
    THEN REPO_PATH \o <<"/", "t", "m", "p", "_", "f", "r", "o", "m", "_", "g", "i", "t", "h", "u", "b", "_">>
    ELSE REPO_PATH \o <<"/", "p", "k", "g", "s", "/", "a", "p", "t">>

\* dl.download_direct(url, wd, filename)
DownloadDirect(params, dir, filename, web) ==
    IF ~web.status_ok THEN Raised("HTTPError", params)
    ELSE Returned([params EXCEPT !.FILE = PathV(WdPath(dir) \o <<"/">> \o filename)],
                  {filename})

\* dl.download_via_browser(browser, url, wd, stem, prefix) inside the try
\* of from_file; <<>> stands for None, for stem and for prefix
DownloadViaBrowser(params, dir, stem, prefix, web) ==
    IF web.remote_filename = <<>> THEN Returned([params EXCEPT !.FILE = FAILED_DOWNLOAD], {})
    ELSE LET exts == filter_exts(Suffixes(web.remote_filename))
             name == prefix \o (IF stem # <<>> THEN stem \o Flatten(exts.val)
                                 ELSE web.remote_filename)
         IN  IF ~IsOk(exts) THEN Raised(exts.exc, params)
             ELSE Returned([params EXCEPT !.FILE = PathV(WdPath(dir) \o <<"/">> \o name)],
                           {name})

\* from_file once params["SUFFIXES"] is settled
Fetch(params, cmd, dir, web) ==
    IF cmd \in {"DOWNLOAD", "DOWNLOAD_REMOTE_NAME"}
    THEN DownloadDirect(params, dir, params.STEM \o Flatten(params.SUFFIXES), web)
    ELSE IF cmd = "DOWNLOAD_BROWSER"
    THEN DownloadViaBrowser(params, dir,
                            IF params.DIR = "BREW" \/ params.MGR = "CHOCO"
                            THEN <<>> ELSE params.STEM,
                            IF params.DIR = "BREW" THEN params.STEM \o <<"|">> ELSE <<>>,
                            web)
    ELSE Raised("ValueError", params)

\* from_file of impl/download.py from the check of params["SUFFIXES"] on;
\* fixed is the outcome of the substitution in the URL
FetchUrl(params, cmd, fixed, dir, web) ==
    IF ~IsOk(fixed) THEN Raised(fixed.exc, params)
    ELSE IF params.SUFFIXES # <<>> \/ cmd = "DOWNLOAD_BROWSER" THEN Fetch(params, cmd, dir, web)
    ELSE IF cmd = "DOWNLOAD_REMOTE_NAME" THEN Raised("ValueError", params)
    ELSE IF cmd # "DOWNLOAD" THEN Raised("ValueError", params)
    ELSE IF ~IsOk(filter_exts(Suffixes(fixed.val))) THEN Raised("ExtensionError", params)
    ELSE Fetch([params EXCEPT !.SUFFIXES = filter_exts(Suffixes(fixed.val)).val],
               cmd, dir, web)

\* from_file of impl/download.py (from_file above is the predicate of
\* parser/cmd_groups.py)
impl_from_file(params, cmd, args, dir, web) ==
    FetchUrl(params, cmd, fix_vars(params, args[1], {}), dir, web)

\* a plausible change: download_cmd ends without looking at FILE
CheckDownloadedNever(left) == left

\* the check that ends download_cmd
CheckDownloaded(left) ==
    IF IsOk(left) /\ left.params.FILE = FAILED_DOWNLOAD
    THEN Raised("CommandExecutionError", left.params)
    ELSE left

GH_URL  == <<"h", "t", "t", "p", "s", ":", "/", "/", "w", "w", "w", ".", "g", "i", "t", "h", "u", "b", ".", "c", "o", "m", "/">>
GH_PATH == <<"/", "r", "e", "l", "e", "a", "s", "e", "s", "/", "d", "o", "w", "n", "l", "o", "a", "d", "/">>
DOT_DEB == <<".", "d", "e", "b">>

\* the asset and tag from_github settles on: the most recent match without
\* a tag argument, the match under the tag with one
GithubAsset(args, rd) ==
    IF Len(args) = 2 THEN find_recent_asset(rd, args[2])
    ELSE Then(find_asset_by_tag(rd, args[2], args[3]), LAMBDA asset :
              IF asset = <<>> THEN Raise("ValueError")
              ELSE Ok([asset |-> asset, tag |-> args[3]]))

\* the end of from_github for a shared working directory: the file that
\* from_file left in the temporary directory is renamed to <stem>.deb
GithubToShared(left, dir) ==
    IF ~IsOk(left) THEN left
    ELSE [left EXCEPT !.params.FILE =
                          PathV(WdPath(dir) \o <<"/">> \o left.params.STEM \o DOT_DEB),
                      !.written = {left.params.STEM \o DOT_DEB}]

\* from_github once asset and tag are found
GithubFetch(params, args, found, dir, web) ==
    IF ~IsOk(found) THEN Raised(found.exc, params)
    ELSE IF params.MGR # "APT" THEN Raised("ValueError", params)
    ELSE IF params.DIR = "TMP"
    THEN impl_from_file(params, "DOWNLOAD",
                        <<GH_URL \o args[1] \o GH_PATH \o found.val.tag
                            \o <<"/">> \o found.val.asset>>, dir, web)
    ELSE GithubToShared(
             impl_from_file(params, "DOWNLOAD",
                            <<GH_URL \o args[1] \o GH_PATH \o found.val.tag
                                \o <<"/">> \o found.val.asset>>, "tmp_from_github", web),
             dir)

from_github(params, args, dir, web) ==
    GithubFetch(params, args, GithubAsset(args, web.release_data), dir, web)

\* copy_from_src once the source is substituted; present: the names in wd
CopyFromSrc(params, fixed, dir, present, web) ==
    IF ~IsOk(fixed) THEN Raised(fixed.exc, params)
    ELSE LET src_file == PathName(fixed.val)
             p        == [params EXCEPT !.FILE = PathV(WdPath(dir) \o <<"/">> \o src_file)]
         IN  IF src_file \in present THEN Returned(p, {})
             ELSE IF ~web.src_ok THEN Raised("FileNotFoundError", p)
             ELSE Returned(p, {src_file})

copy_from_src(params, args, dir, present, web) ==
    CopyFromSrc(params, fix_vars(params, args[1], {}), dir, present, web)

\* symlink_from_src once the source is substituted
SymlinkFromSrc(params, fixed, dir, present, web) ==
    IF ~IsOk(fixed) THEN Raised(fixed.exc, params)
    ELSE LET src_file == IF params.DIR # "TMP"
                         THEN params.STEM \o <<"|">> \o PathName(fixed.val)
                         ELSE PathName(fixed.val)
             p        == [params EXCEPT !.FILE = PathV(WdPath(dir) \o <<"/">> \o src_file)]
         IN  IF src_file \notin present THEN Returned(p, {src_file})
             ELSE IF web.existing # "same_link" THEN Raised("ValueError", p)
             ELSE Returned(p, {})

symlink_from_src(params, args, dir, present, web) ==
    SymlinkFromSrc(params, fix_vars(params, args[1], {}), dir, present, web)

from_src(params, cmd, args, dir, present, web) ==
    IF cmd = "COPY_SRC" THEN copy_from_src(params, args, dir, present, web)
    ELSE IF cmd = "SYMLINK_SRC" THEN symlink_from_src(params, args, dir, present, web)
    ELSE Raised("ValueError", params)

\* file_manup._get_compression_mode, given filter_exts(src)
CompressionMode(exts) ==
    IF ~IsOk(exts) THEN exts
    ELSE IF \A i \in 1..Len(exts.val) : exts.val[i] # <<".", "t", "a", "r">>
    THEN Raise("DecompressionError")
    ELSE IF exts.val[Len(exts.val)] = <<".", "t", "a", "r">> THEN Ok("r")
    ELSE IF exts.val[Len(exts.val)] \in {<<".", "g", "z">>, <<".", "t", "g", "z">>}
    THEN Ok("r:gz")
    ELSE IF exts.val[Len(exts.val)] \in {<<".", "b", "z", "2">>, <<".", "t", "b", "z", "2">>}
    THEN Ok("r:bz2")
    ELSE Raise("DecompressionError")

\* extract once the compression mode is known; members: the entries of the
\* archive that the glob, if given, selects
\* a plausible change: the archive is removed whatever the target is
ExtractedAndRemoved(params, mode, members) ==
    IF ~IsOk(mode) THEN Raised(mode.exc, params)
    ELSE IF params.DIR # "TMP"
    THEN [Returned(params, {params.STEM \o <<"|">> \o m : m \in members})
            EXCEPT !.removed = {PathName(params.FILE.text)}]
    ELSE [Returned(params, members) EXCEPT !.removed = {PathName(params.FILE.text)}]

Extracted(params, mode, members) ==
    IF ~IsOk(mode) THEN Raised(mode.exc, params)
    ELSE IF params.DIR # "TMP"
    THEN Returned(params, {params.STEM \o <<"|">> \o m : m \in members})
    ELSE [Returned(params, members) EXCEPT !.removed = {PathName(params.FILE.text)}]

extract(params, args, web) ==
    IF params.FILE.kind # "path" THEN Raised("ValueError", params)
    ELSE Extracted(params,
                   CompressionMode(filter_exts(Suffixes(PathName(params.FILE.text)))),
                   IF Len(args) = 1
                   THEN {m \in web.members : GlobMatch(m, args[1])}
                   ELSE web.members)

\* download_cmd: wd is the working directory, present the names in it
download_cmd(cmd, params, args, dir, present, web) ==
    CheckDownloaded(
        CASE cmd = "DOWNLOAD_GH" -> from_github(params, args, dir, web)
          [] from_file(cmd)      -> impl_from_file(params, cmd, args, dir, web)
          [] cmd \in {"SYMLINK_SRC", "COPY_SRC"}
                                 -> from_src(params, cmd, args, dir, present, web)
          [] OTHER               -> Raised("ValueError", params))

\* run_cmd for the commands whose handlers are modelled
run_cmd(params, cmd, args, dir, present, web) ==
    CASE cmd \notin IMPLEMENTATIONS -> Raised("KeyError", params)
      [] cmd = "SET"                -> set_cmd(params, args)
      [] cmd = "EXTRACT"            -> extract(params, args, web)
      [] cmd \in DOWNLOAD_CMDS      -> download_cmd(cmd, params, args, dir, present, web)

-----------------------------------------------------------------------------
(* parser/parse.py: load_configs and check_for_duplicates;                 *)
(* impl/utils.py: final_exists                                             *)

\* tool.name.startswith("."): the entry is a hidden file
Hidden(entry) == StartsWith(entry.tool.name \o entry.tool.suffix, <<".">>)

\* an exception that left load_configs: a ParsingError carries the file it
\* was re-raised for, any other exception propagates as raised
LoadError(entry, e) ==
    [exc |-> e, val |-> IF e = "ParsingError" THEN entry.tool.name \o entry.tool.suffix ELSE <<>>]

RECURSIVE load_configs_lenient_from(_, _, _, _)
RECURSIVE LenientNext(_, _, _, _, _)
load_configs_lenient_from(config_files, i, loaded_configs, net) ==
    IF i > Len(config_files) THEN Ok(loaded_configs)
    ELSE IF Hidden(config_files[i])
    THEN load_configs_lenient_from(config_files, i + 1, loaded_configs, net)
    ELSE LenientNext(config_files, i, loaded_configs, net,
                     parse_tool(config_files[i].tool, config_files[i].ls, net))

LenientNext(config_files, i, loaded_configs, net, out) ==
    load_configs_lenient_from(config_files, i + 1,
        IF IsOk(out) THEN Append(loaded_configs, out.val) ELSE loaded_configs, net)

\* a plausible change: a recipe that fails to load is left out and the
\* loading goes on
load_configs_lenient(config_files, net) ==
    IF config_files = <<>> THEN Raise("ValueError")
    ELSE load_configs_lenient_from(config_files, 1, <<>>, net)

RECURSIVE load_configs_from(_, _, _, _)
RECURSIVE LoadNext(_, _, _, _, _)
\* the loop of load_configs, from the i-th entry on
load_configs_from(config_files, i, loaded_configs, net) ==
    IF i > Len(config_files) THEN Ok(loaded_configs)
    ELSE IF Hidden(config_files[i])
    THEN load_configs_from(config_files, i + 1, loaded_configs, net)
    ELSE LoadNext(config_files, i, loaded_configs, net,
                  parse_tool(config_files[i].tool, config_files[i].ls, net))

\* the loop body after parse_tool returned or raised out
LoadNext(config_files, i, loaded_configs, net, out) ==
    IF IsOk(out)
    THEN load_configs_from(config_files, i + 1, Append(loaded_configs, out.val), net)
    ELSE LoadError(config_files[i], out.exc)

load_configs(config_files, net) ==
    IF config_files = <<>> THEN Raise("ValueError")
    ELSE load_configs_from(config_files, 1, <<>>, net)

check_for_duplicates(loaded_configs) ==
    IF \E i, j \in 1..Len(loaded_configs) :
          /\ i # j
          /\ loaded_configs[i].params.NAME = loaded_configs[j].params.NAME
          /\ loaded_configs[i].params.MGR = loaded_configs[j].params.MGR
    THEN Raise("ValueError")
    ELSE Ok(<<>>)

\* the file name of the built package of the managers final_exists looks up
\* by exact name
FinalSuffix ==
    [ CONDA |-> <<".", "t", "a", "r", ".", "b", "z", "2">>,
      CHOCO |-> <<".", "n", "u", "p", "k", "g">>,
      BREW  |-> <<".", "r", "b">> ]

\* files: the file names in pkgs/<manager>, by manager
final_exists(params, files) ==
    IF params.MGR = "APT"
    THEN \E f \in files.APT : StartsWith(f, params.STEM)
    ELSE (params.STEM \o FinalSuffix[params.MGR]) \in files[params.MGR]

-----------------------------------------------------------------------------
(* main.py: the driver.  The configs folder holds at most MaxTools of the  *)
(* entries of Catalog, in any listing order; pkgs/apt is empty or holds    *)
(* the package of an earlier run; every download is answered with a        *)
(* success or an error status.                                             *)

MaxTools == 3

K_FOO == <<"F", "O", "O">>

C_set_foo == Cmd("SET", <<K_FOO, <<"$", "B", "A", "R">>>>)

RecipeFile(name, suffix, ls) ==
    [tool |-> [name |-> name, suffix |-> suffix, is_dir |-> FALSE], ls |-> ls]

E_a      == RecipeFile(<<"a">>, X_rep, <<C_version, C_download>>)
E_b      == RecipeFile(<<"b">>, X_rep, <<C_version, C_set_mgr, C_download>>)
E_c      == RecipeFile(<<"c">>, X_rep, <<C_version_re, C_download>>)
E_d      == RecipeFile(<<"d">>, X_rep, <<C_version, C_sandbox, C_set_foo, C_download>>)
E_e      == RecipeFile(<<"e">>, X_conda, <<C_version, C_conda>>)
E_hidden == RecipeFile(<<".", "h">>, X_rep, <<C_choco>>)

Catalog == {E_a, E_b, E_c, E_d, E_e, E_hidden}

\* the package the recipe a.rep leaves in pkgs/apt
A_package ==
    <<"a", "|", "1", ".", "0", "|", "a", "p", "t", ".", "t", "a", "r", ".", "g", "z">>

Folders ==
    { f \in UNION {[1..n -> Catalog] : n \in 0..MaxTools} :
        \A i, j \in DOMAIN f : i # j => f[i] # f[j] }

LoadNetwork == Network(F_x12)

\* what the outside answers while a command runs: the status of a direct
\* download, the file name a browser download suggests (<<>>: it did not
\* start), the releases GitHub lists, the top-level entries of the archive
\* at FILE, whether the source of COPY_SRC exists, and what an entry that
\* SYMLINK_SRC finds at its target is
WebPool ==
    [ status_ok : BOOLEAN, remote_filename : {F_x12}, release_data : {<<>>},
      members : {{}}, src_ok : {TRUE}, existing : {"same_link"} ]

MainInit ==
    /\ folder \in Folders
    /\ pkgs \in {[APT |-> files, CONDA |-> {}, CHOCO |-> {}, BREW |-> {}] :
                   files \in {{}, {A_package}}}
    /\ tmpdir_debug \in BOOLEAN
    /\ main_pc = "load_configs"
    /\ configs = <<>>
    /\ recipe_ix = 0
    /\ cmd_ix = 0
    /\ wd = "none"
    /\ tmp_dirs = {}
    /\ error = NoError
    /\ started = {}
    /\ skipped = {}

\* an exception leaves main
Crash(e, at, file, i) ==
    /\ error' = [exc |-> e, at |-> at, file |-> file, recipe |-> i]
    /\ main_pc' = "crashed"

\* configs = parse.load_configs(repo, domain, auth, keeper), given its outcome
Loaded(out) ==
    /\ IF IsOk(out)
       THEN /\ configs' = out.val
            /\ main_pc' = "check_for_duplicates"
            /\ UNCHANGED error
       ELSE /\ Crash(out.exc, "load_configs", out.val, 0)
            /\ UNCHANGED configs
    /\ UNCHANGED <<folder, pkgs, tmpdir_debug, recipe_ix, cmd_ix, wd, tmp_dirs, started, skipped>>

\* load_configs on a network net
LoadConfigsOn(net) ==
    /\ main_pc = "load_configs"
    /\ Loaded(load_configs(folder, net))
    /\ UNCHANGED notMain

LoadConfigs == LoadConfigsOn(LoadNetwork)

CheckForDuplicates ==
    /\ main_pc = "check_for_duplicates"
    /\ IF IsOk(check_for_duplicates(configs))
       THEN main_pc' = "next_recipe" /\ UNCHANGED error
       ELSE Crash("ValueError", "check_for_duplicates", <<>>, 0)
    /\ UNCHANGED <<folder, pkgs, tmpdir_debug, configs, recipe_ix, cmd_ix, wd, tmp_dirs, started, skipped>>
    /\ UNCHANGED notMain

\* if impl.final_exists(params): continue
SkipRecipe ==
    /\ main_pc = "next_recipe"
    /\ recipe_ix < Len(configs)
    /\ final_exists(configs[recipe_ix + 1].params, pkgs)
    /\ skipped' = skipped \cup {recipe_ix + 1}
    /\ recipe_ix' = recipe_ix + 1
    /\ UNCHANGED <<folder, pkgs, tmpdir_debug, main_pc, configs, cmd_ix, wd, tmp_dirs, error, started>>
    /\ UNCHANGED notMain

\* DirContext.__enter__: the kind of directory it returns.  TargetDir has
\* no member TAP, so the comparison that follows the one with DEBS raises.
DirContextEnter(dir) ==
    IF dir = "TMP" THEN Ok("TMP")
    ELSE IF dir = "DEBS" THEN Ok("DEBS")
    ELSE Raise("AttributeError")

\* with impl.DirContext(params) as wd: a temporary directory of the recipe
\* is created for TMP, pkgs/apt is given for DEBS
EnterDirContext ==
    /\ main_pc = "next_recipe"
    /\ recipe_ix < Len(configs)
    /\ ~final_exists(configs[recipe_ix + 1].params, pkgs)
    /\ started' = started \cup {recipe_ix + 1}
    /\ cmd_ix' = 0
    /\ IF IsOk(DirContextEnter(configs[recipe_ix + 1].params.DIR))
       THEN /\ wd' = DirContextEnter(configs[recipe_ix + 1].params.DIR).val
            /\ tmp_dirs' = IF configs[recipe_ix + 1].params.DIR = "TMP"
                           THEN tmp_dirs \cup {[owner |-> recipe_ix + 1, files |-> {}]}
                           ELSE tmp_dirs
            /\ main_pc' = "run_cmds"
            /\ UNCHANGED error
       ELSE /\ Crash("AttributeError", "DirContext", <<>>, recipe_ix + 1)
            /\ UNCHANGED <<wd, tmp_dirs>>
    /\ UNCHANGED <<folder, pkgs, tmpdir_debug, configs, recipe_ix, skipped>>
    /\ UNCHANGED notMain

\* the temporary directories after a handler worked in the one of recipe i
WriteTmp(dirs, i, left) ==
    {IF d.owner = i THEN [d EXCEPT !.files = (@ \ left.removed) \cup left.written]
     ELSE d : d \in dirs}

\* the names in the working directory of recipe i
WdFiles(i) ==
    IF wd = "TMP" THEN UNION {d.files : d \in {x \in tmp_dirs : x.owner = i}}
    ELSE pkgs.APT

\* a plausible change: leaving the scope removes nothing
CleanupNever(dirs, i) == dirs

\* DirContext.__exit__: the temporary directory of recipe i is removed
\* unless TMPDIR_DEBUG is set
Cleanup(dirs, i) ==
    IF tmpdir_debug THEN dirs ELSE {d \in dirs : d.owner # i}

\* what a handler did to params and to the working directory of recipe i
HandlerEffects(i, left) ==
    /\ configs' = [configs EXCEPT ![i].params = left.params]
    /\ pkgs' = IF wd = "DEBS"
               THEN [pkgs EXCEPT !.APT = (@ \ left.removed) \cup left.written]
               ELSE pkgs

\* a plausible change: a handler error ends the recipe and the loop goes on
\* with the next one
AfterCmdIsolating(i, left) ==
    /\ HandlerEffects(i, left)
    /\ IF IsOk(left)
       THEN /\ tmp_dirs' = WriteTmp(tmp_dirs, i, left)
            /\ cmd_ix' = cmd_ix + 1
            /\ UNCHANGED <<main_pc, error, wd, recipe_ix>>
       ELSE /\ tmp_dirs' = Cleanup(tmp_dirs, i)
            /\ wd' = "none"
            /\ error' = [exc |-> left.exc, at |-> "run_cmd", file |-> <<>>, recipe |-> i]
            /\ main_pc' = "next_recipe"
            /\ recipe_ix' = i
            /\ UNCHANGED cmd_ix
    /\ UNCHANGED <<folder, tmpdir_debug, started, skipped>>

\* the loop body after impl.run_cmd returned or raised for recipe i: an
\* exception closes the scope of the working directory and leaves main
AfterCmd(i, left) ==
    /\ HandlerEffects(i, left)
    /\ IF IsOk(left)
       THEN /\ tmp_dirs' = WriteTmp(tmp_dirs, i, left)
            /\ cmd_ix' = cmd_ix + 1
            /\ UNCHANGED <<main_pc, error, wd>>
       ELSE /\ tmp_dirs' = Cleanup(tmp_dirs, i)
            /\ wd' = "none"
            /\ Crash(left.exc, "run_cmd", <<>>, i)
            /\ UNCHANGED cmd_ix
    /\ UNCHANGED <<folder, tmpdir_debug, recipe_ix, started, skipped>>

RunCmdIsolating ==
    /\ main_pc = "run_cmds"
    /\ cmd_ix < Len(configs[recipe_ix + 1].cmds)
    /\ \E web \in WebPool :
         AfterCmdIsolating(recipe_ix + 1,
                  run_cmd(configs[recipe_ix + 1].params,
                          configs[recipe_ix + 1].cmds[cmd_ix + 1].cmd,
                          configs[recipe_ix + 1].cmds[cmd_ix + 1].args,
                          wd, WdFiles(recipe_ix + 1), web))
    /\ UNCHANGED notMain

\* impl.run_cmd(keeper, params, actual_cmd, cmd_args, wd) for the next
\* command of the recipe in progress
RunCmdWith(web) ==
    /\ main_pc = "run_cmds"
    /\ cmd_ix < Len(configs[recipe_ix + 1].cmds)
    /\ AfterCmd(recipe_ix + 1,
                run_cmd(configs[recipe_ix + 1].params,
                        configs[recipe_ix + 1].cmds[cmd_ix + 1].cmd,
                        configs[recipe_ix + 1].cmds[cmd_ix + 1].args,
                        wd, WdFiles(recipe_ix + 1), web))
    /\ UNCHANGED notMain

RunCmd == \E web \in WebPool : RunCmdWith(web)

\* the commands of the recipe are through: the scope of the working
\* directory is left
ExitDirContext ==
    /\ main_pc = "run_cmds"
    /\ cmd_ix = Len(configs[recipe_ix + 1].cmds)
    /\ tmp_dirs' = Cleanup(tmp_dirs, recipe_ix + 1)
    /\ wd' = "none"
    /\ recipe_ix' = recipe_ix + 1
    /\ main_pc' = "next_recipe"
    /\ UNCHANGED <<folder, pkgs, tmpdir_debug, configs, cmd_ix, error, started, skipped>>
    /\ UNCHANGED notMain

\* the loop over configs is through
Finish ==
    /\ main_pc = "next_recipe"
    /\ recipe_ix = Len(configs)
    /\ main_pc' = "done"
    /\ UNCHANGED <<folder, pkgs, tmpdir_debug, configs, recipe_ix, cmd_ix, wd, tmp_dirs, error, started, skipped>>
    /\ UNCHANGED notMain

Next ==
    \/ LoadConfigs
    \/ CheckForDuplicates
    \/ SkipRecipe
    \/ EnterDirContext
    \/ RunCmd
    \/ ExitDirContext
    \/ Finish

Init == MainInit /\ ExtIdle /\ RlIdle /\ GhIdle /\ FvIdle /\ ParseIdle /\ FilterIdle

Spec == Init /\ [][Next]_vars

-----------------------------------------------------------------------------
(* Claims about the driver *)

\* parse_tool accepts the entry, loaded on its own
LoadsAlone(entry) == IsOk(parse_tool(entry.tool, entry.ls, LoadNetwork))

\* the positions of the entries of the folder that fail to load
FailingEntries ==
    {i \in 1..Len(folder) : ~Hidden(folder[i]) /\ ~LoadsAlone(folder[i])}

\* the recipe of the entry is among the loaded recipes
IsLoaded(entry) ==
    \E k \in 1..Len(configs) : configs[k].params.NAME = entry.tool.name

\* the recipes main has dealt with: executed or skipped
Attempted == started \cup skipped

\* C1 as stated: when a handler raises while main executes a recipe, only
\* that recipe is aborted and every later recipe of the batch is executed.
C1_AsStated ==
    (main_pc \in {"done", "crashed"} /\ error.at = "run_cmd")
        => \A j \in (error.recipe + 1)..Len(configs) : j \in Attempted

\* C1: when a handler raises while main executes a recipe, the recipe is
\* aborted, the scope of its working directory is closed, and the error
\* ends the loop over the batch: no later recipe is executed.
C1_HandlerErrorEndsBatch ==
    error.at = "run_cmd"
        => /\ main_pc = "crashed"
           /\ wd = "none"
           /\ error.recipe = recipe_ix + 1
           /\ \A j \in Attempted : j <= error.recipe

C1_Witness ==
    /\ main_pc = "crashed"
    /\ error.at = "run_cmd"
    /\ error.recipe < Len(configs)

\* C2 as stated: when a recipe fails to load, load_configs still loads
\* every other recipe of the configs folder.
C2_AsStated ==
    main_pc # "load_configs"
        => \A i \in 1..Len(folder) :
             (~Hidden(folder[i]) /\ LoadsAlone(folder[i])) => IsLoaded(folder[i])

\* C2: when a recipe fails to load, load_configs stops at the first such
\* recipe and raises (a ParsingError names the file, any other error
\* propagates as raised): no recipe is loaded and none is executed.
C2_LoadStopsAtFirstError ==
    (main_pc # "load_configs" /\ FailingEntries # {})
        => LET first == CHOOSE i \in FailingEntries : \A j \in FailingEntries : i <= j
               out   == parse_tool(folder[first].tool, folder[first].ls, LoadNetwork)
           IN  /\ main_pc = "crashed"
               /\ error.at = "load_configs"
               /\ error.exc = out.exc
               /\ (out.exc = "ParsingError"
                     => error.file = folder[first].tool.name \o folder[first].tool.suffix)
               /\ configs = <<>>
               /\ Attempted = {}

C2_Witness ==
    /\ main_pc = "crashed"
    /\ error.at = "load_configs"
    /\ Len(folder) > 1
    /\ ~Hidden(folder[1]) /\ ~LoadsAlone(folder[1])
    /\ ~Hidden(folder[2]) /\ LoadsAlone(folder[2])
    /\ configs = <<>>

-----------------------------------------------------------------------------
(* Claims about what the substitution replaces (checked under SpecFixVars) *)

Literals == {L_dash, L_tar}

\* the piece is a reference to a key fix_vars substitutes in this call
RefersToSubstituted(p, skip, piece) ==
    Head(piece) = "$" /\ Tail(piece) \in Substituted(p, skip)

\* what the claim has a piece of the template become
ExpectedPiece(p, skip, piece) ==
    IF piece = R_DEST THEN p.NAME \o <<"-">> \o p.VERSION
    ELSE IF RefersToSubstituted(p, skip, piece)
    THEN Lookup(AllVars(p), Tail(piece)).val.text
    ELSE piece

\* C12: fix_vars replaces every occurrence of $KEY by the value of KEY, for
\* every KEY among the non-skipped fixed context fields and the user
\* variables, whatever the other keys are (a user key NAMESPACE next to the
\* field NAME included), and a bare $DEST by name-version: a template made
\* of such references and of literal text is returned with every reference
\* replaced by its key's value.
C12_EveryKeyReplaced ==
    ( /\ fv_pc = "done"
      /\ \A i \in 1..Len(fv_string) :
            \/ fv_string[i] \in Literals \cup {R_DEST}
            \/ RefersToSubstituted(fv_params, fv_out.val.skip, fv_string[i]) )
    => fv_out = Ok([skip |-> fv_out.val.skip,
                    out  |-> Flatten([i \in 1..Len(fv_string) |->
                                ExpectedPiece(fv_params, fv_out.val.skip, fv_string[i])])])

-----------------------------------------------------------------------------
(* main.py on a folder that holds one apt recipe file: VERSION and a       *)
(* download command (or DOWNLOAD_GH alone), with or without SANDBOX, with  *)
(* or without an EXTRACT after it.  pkgs/apt is empty or holds the package *)
(* of an earlier run; the outside answers every command with one of the    *)
(* elements of RunWebPool.                                                 *)

U_src     == <<"s", "/", "x", ".", "d", "e", "b">>
X_package == <<"x", "|", "1", ".", "0", "|", "a", "p", "t", ".", "d", "e", "b">>
M_bin     == <<"b", "i", "n">>
M_lib     == <<"l", "i", "b">>
G_b       == <<"b", "*">>
GH_repo   == <<"o", "/", "t">>
A_tgz     == <<"t", "-", "2", ".", "t", "a", "r", ".", "g", "z">>
P_tgz     == <<"t", "-", "*", ".", "t", "a", "r", ".", "g", "z">>

C_browser      == Cmd("DOWNLOAD_BROWSER", <<U_example>>)
C_copy_src     == Cmd("COPY_SRC", <<U_src>>)
C_symlink_src  == Cmd("SYMLINK_SRC", <<U_src>>)
C_download_gh  == Cmd("DOWNLOAD_GH", <<GH_repo, P_tgz>>)
C_extract      == Cmd("EXTRACT", <<>>)
C_extract_glob == Cmd("EXTRACT", <<G_b>>)

RunHeads ==
    { <<C_version, c>> : c \in {C_download, C_browser, C_copy_src, C_symlink_src} }
        \cup
    { <<C_version, C_sandbox, c>> :
         c \in {C_download, C_browser, C_copy_src, C_symlink_src} }
        \cup
    { <<C_download_gh>>, <<C_sandbox, C_download_gh>> }

RunTails == { <<>>, <<C_extract>>, <<C_extract_glob>> }

\* recipes whose EXTRACT comes before the download
RunEarly ==
    { <<C_version, C_extract, C_download>>, <<C_version, C_sandbox, C_extract, C_download>> }

RunCatalog ==
    { RecipeFile(<<"x">>, X_rep, head \o tail) : head \in RunHeads, tail \in RunTails }
        \cup { RecipeFile(<<"x">>, X_rep, ls) : ls \in RunEarly }

RunReleases == << [tag |-> T_v20, assets |-> <<A_tgz>>] >>

\* the releases once v3.0 is published
T_v30  == <<"v", "3", ".", "0">>
A_tgz3 == <<"t", "-", "3", ".", "t", "a", "r", ".", "g", "z">>

RunReleasesLater == << [tag |-> T_v30, assets |-> <<A_tgz3>>] >> \o RunReleases

RunNetwork == [remote_filename |-> F_x12, release_data |-> RunReleases]

RunWebPool ==
    [ status_ok : BOOLEAN, remote_filename : {F_x12, <<>>},
      release_data : {RunReleases, RunReleasesLater},
      members : {{M_bin}, {M_bin, M_lib}}, src_ok : BOOLEAN,
      existing : {"same_link", "other_link"} ]

RunInit ==
    /\ folder \in {<<e>> : e \in RunCatalog}
    /\ pkgs \in {[APT |-> files, CONDA |-> {}, CHOCO |-> {}, BREW |-> {}] :
                   files \in {{}, {X_package}}}
    /\ tmpdir_debug \in BOOLEAN
    /\ main_pc = "load_configs"
    /\ configs = <<>>
    /\ recipe_ix = 0
    /\ cmd_ix = 0
    /\ wd = "none"
    /\ tmp_dirs = {}
    /\ error = NoError
    /\ started = {}
    /\ skipped = {}

LoadRecipe == LoadConfigsOn(RunNetwork)

RunCmdOnline == \E web \in RunWebPool : RunCmdWith(web)

RunNext ==
    \/ LoadRecipe
    \/ CheckForDuplicates
    \/ SkipRecipe
    \/ EnterDirContext
    \/ RunCmdOnline
    \/ ExitDirContext
    \/ Finish

InitRun == RunInit /\ ExtIdle /\ RlIdle /\ GhIdle /\ FvIdle /\ ParseIdle /\ FilterIdle

SpecRun == InitRun /\ [][RunNext]_vars

-----------------------------------------------------------------------------
(* Claims about the execution of one recipe (checked under SpecRun) *)

\* the recipe in progress and the command that runs next
CurParams == configs[recipe_ix + 1].params

CurCmd == configs[recipe_ix + 1].cmds[cmd_ix + 1]

Running == main_pc = "run_cmds" /\ cmd_ix < Len(configs[recipe_ix + 1].cmds)

\* C13: every file that a download-family or EXTRACT command of a
\* non-sandbox recipe writes into the shared target directory has a name
\* beginning with that recipe's stem name|version|manager.
C13_SharedNamesStartWithStem ==
    [][ ( /\ Running
          /\ CurParams.DIR # "TMP"
          /\ CurCmd.cmd \in DOWNLOAD_CMDS \cup {"EXTRACT"} )
        => \A f \in pkgs'.APT \ pkgs.APT : StartsWith(f, CurParams.STEM) ]_vars

\* C14: a download command that ends with FILE equal to the sentinel
\* FAILED_DOWNLOAD aborts the recipe with a hard error at once: main is left
\* with a CommandExecutionError raised for that recipe, so no command ever
\* starts with FILE equal to the sentinel.
C14_SentinelAborts ==
    \A i \in 1..Len(configs) :
        configs[i].params.FILE = FAILED_DOWNLOAD
            => /\ main_pc = "crashed"
               /\ error.exc = "CommandExecutionError"
               /\ error.at = "run_cmd"
               /\ error.recipe = i

\* a browser download did not start while an EXTRACT was still to run
C14_Witness ==
    /\ main_pc = "crashed"
    /\ configs[1].params.FILE = FAILED_DOWNLOAD
    /\ configs[1].cmds[cmd_ix + 1].cmd = "DOWNLOAD_BROWSER"
    /\ cmd_ix + 1 < Len(configs[1].cmds)
    /\ configs[1].cmds[cmd_ix + 2].cmd = "EXTRACT"

\* recipe i is the one whose commands are being run
InProgress(i) == main_pc = "run_cmds" /\ recipe_ix + 1 = i

\* the temporary working directories of recipe i on disk
TmpDirsOf(i) == {d \in tmp_dirs : d.owner = i}

\* C15: for a recipe whose target is TMP the working directory is a
\* temporary directory freshly created for that recipe (it is new and
\* empty when the scope is entered), and it is removed when the recipe's
\* execution ends, by normal completion or by a handler error, unless
\* TMPDIR_DEBUG is set: after a recipe ended without the override no
\* temporary working directory of that recipe remains.
C15_TmpRemovedOnEveryExit ==
    /\ [](\A i \in started :
            /\ (InProgress(i) /\ configs[i].params.DIR = "TMP")
                  => (wd = "TMP" /\ Cardinality(TmpDirsOf(i)) = 1)
            /\ (~InProgress(i) /\ ~tmpdir_debug) => TmpDirsOf(i) = {})
    /\ [][ ( /\ main_pc = "next_recipe"
             /\ main_pc' = "run_cmds"
             /\ configs[recipe_ix + 1].params.DIR = "TMP" )
           => /\ TmpDirsOf(recipe_ix + 1) = {}
              /\ tmp_dirs' = tmp_dirs \cup {[owner |-> recipe_ix + 1, files |-> {}]} ]_vars

\* a sandbox recipe whose first command left a file in the temporary
\* directory and whose second command raised: the directory is gone
C15_Witness ==
    /\ main_pc = "crashed"
    /\ error.at = "run_cmd"
    /\ error.recipe = 1
    /\ configs[1].params.DIR = "TMP"
    /\ cmd_ix = 1
    /\ ~tmpdir_debug
    /\ tmp_dirs = {}

-----------------------------------------------------------------------------
(* Specification of the validation of one program: a program of at most    *)
(* MaxProgram commands of FilterPool is written, then filter_cmds is       *)
(* called for it while GitHub lists one of the release lists of            *)
(* FilterReleases.                                                         *)

MaxProgram == 4

K_BAR == <<"B", "A", "R">>

C_set_bar    == Cmd("SET", <<K_BAR, <<"y">>>>)
C_create_deb == Cmd("CREATE_DEB", <<>>)
C_build_deb  == Cmd("BUILD_DEB", <<>>)

FilterPool ==
    { C_version, C_sandbox, C_set_foo, C_set_bar, C_download, C_remote_name,
      C_browser, C_copy_src, C_symlink_src, C_download_gh, C_cask, C_conda,
      C_create_deb, C_build_deb }

FilterReleases == { <<>>, RunReleases }

FilterInit ==
    /\ program = <<>>
    /\ filter_out = NotCalled
    /\ filter_pc = "input"

WriteProgram(c) ==
    /\ filter_pc = "input"
    /\ Len(program) < MaxProgram
    /\ program' = Append(program, c)
    /\ UNCHANGED <<filter_out, filter_pc>>
    /\ UNCHANGED notFilter

CallFilterCmds(releases) ==
    /\ filter_pc = "input"
    /\ filter_out' = [filter_cmds(program, [remote_filename |-> F_x12,
                                            release_data |-> releases])
                        EXCEPT !.val = [releases |-> releases, out |-> @]]
    /\ filter_pc' = "done"
    /\ UNCHANGED program
    /\ UNCHANGED notFilter

FilterNext ==
    \/ \E c \in FilterPool : WriteProgram(c)
    \/ \E releases \in FilterReleases : CallFilterCmds(releases)

InitFilter ==
    FilterInit /\ ExtIdle /\ RlIdle /\ GhIdle /\ FvIdle /\ ParseIdle /\ MainIdle

SpecFilter == InitFilter /\ [][FilterNext]_vars

-----------------------------------------------------------------------------
(* Claims about the validator (checked under SpecFilter) *)

FilterAccepted == filter_pc = "done" /\ IsOk(filter_out)

\* the positions of the program that hold the verb c
PositionsOf(c) == {i \in 1..Len(program) : program[i].cmd = c}

\* the positions of the program that hold a download-family command
DownloadPositions == {i \in 1..Len(program) : program[i].cmd \in DOWNLOAD_CMDS}

\* C16: every program accepted by filter_cmds has exactly one
\* version-determining source: either it contains a VERSION command and its
\* download command (if any) is not DOWNLOAD_GH, or it contains no VERSION
\* command and its single download command is DOWNLOAD_GH, and then the
\* version is taken from the tag of the release whose asset matched.
C16_OneVersionSource ==
    FilterAccepted =>
        \/ /\ PositionsOf("VERSION") # {}
           /\ \A i \in DownloadPositions : program[i].cmd # "DOWNLOAD_GH"
           /\ ( /\ ~StartsWith(program[1].args[1], GH_PREFIX)
                /\ ~StartsWith(program[1].args[1], RE_PREFIX) )
                 => filter_out.val.out.version = program[1].args[1]
        \/ /\ PositionsOf("VERSION") = {}
           /\ Cardinality(DownloadPositions) = 1
           /\ \A i \in DownloadPositions :
                 /\ program[i].cmd = "DOWNLOAD_GH"
                 /\ \E r \in 1..Len(filter_out.val.releases) :
                       /\ \E a \in Range(filter_out.val.releases[r].assets) :
                             GlobMatch(a, program[i].args[2])
                       /\ filter_out.val.out.version =
                             SanitizeVersion(filter_out.val.releases[r].tag)

\* a DOWNLOAD_GH without VERSION, accepted with the version of the tag v2.0
C16_Witness ==
    /\ FilterAccepted
    /\ program = <<C_sandbox, C_download_gh>>
    /\ filter_out.val.out.version = <<"2", ".", "0">>

\* the number of commands VERSION takes at the head of the program
VersionLen == IF PositionsOf("VERSION") # {} THEN 1 ELSE 0

\* C17: filter_cmds accepts a program only if VERSION, when present, is its
\* first command and SANDBOX, when present, is the command immediately
\* after VERSION (or the first command when there is no VERSION); a program
\* starting SANDBOX, VERSION is rejected.
C17_VersionThenSandbox ==
    /\ FilterAccepted =>
          /\ PositionsOf("VERSION") \subseteq {1}
          /\ PositionsOf("SANDBOX") \subseteq {VersionLen + 1}
    /\ ( /\ filter_pc = "done"
         /\ Len(program) >= 2
         /\ program[1].cmd = "SANDBOX"
         /\ program[2].cmd = "VERSION" )
          => filter_out.exc = "ParsingError"

\* a program starting VERSION, SANDBOX passes the checks
C17_Witness ==
    /\ FilterAccepted
    /\ program = <<C_version, C_sandbox, C_download>>
    /\ filter_out.val.out.target_dir = "TMP"

\* C18: a program accepted by filter_cmds holds each of VERSION, SANDBOX,
\* CREATE_DEB, BUILD_DEB, CASK and CONDA at most once, and at most one
\* download-family command in total.
C18_UniqueAndOneDownload ==
    FilterAccepted =>
        /\ \A c \in {"VERSION", "SANDBOX", "CREATE_DEB", "BUILD_DEB", "CASK", "CONDA"} :
              Cardinality(PositionsOf(c)) <= 1
        /\ Cardinality({i \in 1..Len(program) : program[i].cmd \in
              {"DOWNLOAD", "DOWNLOAD_REMOTE_NAME", "DOWNLOAD_BROWSER",
               "DOWNLOAD_GH", "COPY_SRC", "SYMLINK_SRC"}}) <= 1

\* an accepted program with three unique commands and one download
C18_Witness ==
    /\ FilterAccepted
    /\ program = <<C_version, C_sandbox, C_copy_src, C_build_deb>>

\* the number of commands VERSION and SANDBOX take at the head of the program
HeadLen == VersionLen + (IF PositionsOf("SANDBOX") # {} THEN 1 ELSE 0)

\* C19: in a program accepted by filter_cmds the SET commands form one
\* block that starts right after VERSION/SANDBOX, and their keys are
\* pairwise distinct.
C19_SetBlockDistinctKeys ==
    FilterAccepted =>
        /\ PositionsOf("SET") = (HeadLen + 1)..(HeadLen + Cardinality(PositionsOf("SET")))
        /\ \A i, j \in PositionsOf("SET") :
              i # j => program[i].args[1] # program[j].args[1]

\* two SET commands with distinct keys that are not reserved are accepted
C19_Witness ==
    /\ FilterAccepted
    /\ program = <<C_version, C_set_foo, C_set_bar, C_download>>
    /\ filter_out.val.out.cmds = <<C_set_foo, C_set_bar, C_download>>

\* the recipe parse_tool was called for holds the command c
RecipeHas(c) == \E i \in 1..Len(recipe) : recipe[i].cmd = c

\* the target directory C20 names for the recipe parse_tool was called for
ExpectedDir ==
    IF parse_out.val.tool.suffix \in {X_conda, X_choco} THEN "TMP"
    ELSE IF RecipeHas("SANDBOX") THEN "TMP"
    ELSE IF RecipeHas("CASK") THEN "TAP"
    ELSE "DEBS"

\* the target directory of every recipe parse_tool accepts is the one C20
\* names
C20_AcceptedTargets == Accepted => parse_out.val.out.params.DIR = ExpectedDir

\* C20: the target directory of a recipe is TMP with SANDBOX, else TAP with
\* CASK, else DEBS, and TMP in any case for a conda or a Chocolatey recipe;
\* the selection yields one of these directories for every recipe that
\* reaches it, without an error of its own.
C20_TargetDir ==
    /\ C20_AcceptedTargets
    /\ ParseDone => parse_out.exc # "AttributeError"

-----------------------------------------------------------------------------
(* Specification of the load of a package recipe: after one of the heads   *)
(* of PkgHeads, at most MaxTail commands of PkgPool are written, then      *)
(* parse_tool is called for the recipe as the recipe of an apt, a conda or *)
(* a Chocolatey tool, a plain file or a package folder.                    *)

MaxTail == 4

DH_OTHER == <<"d", "h", "_", "x">>

C_dh_usrlocal == Cmd("DH_DISABLE", <<DH_USRLOCAL>>)
C_dh_other    == Cmd("DH_DISABLE", <<DH_OTHER>>)
C_conda_build == Cmd("CONDA_BUILD", <<>>)

\* the line VERSION ""
C_version_empty == Cmd("VERSION", << <<>> >>)

PkgHeads == { <<C_version>>, <<C_version, C_sandbox>>, <<C_version_empty>> }

PkgPool ==
    { C_download, C_create_deb, C_build_deb, C_dh_usrlocal, C_dh_other,
      C_conda, C_conda_build, C_choco }

PkgToolPool ==
    [ name : {<<"x">>}, suffix : {X_rep, X_conda, X_choco}, is_dir : BOOLEAN ]

PkgInit ==
    /\ recipe \in PkgHeads
    /\ parse_out = NotCalled
    /\ parse_pc = "input"

\* the recipe without its head
RecipeTail == SelectSeq(recipe, LAMBDA c : c.cmd \notin {"VERSION", "SANDBOX"})

WriteTail(c) ==
    /\ parse_pc = "input"
    /\ Len(RecipeTail) < MaxTail
    /\ recipe' = Append(recipe, c)
    /\ UNCHANGED <<parse_out, parse_pc>>
    /\ UNCHANGED notParse

PkgNext ==
    \/ \E c \in PkgPool : WriteTail(c)
    \/ \E tool \in PkgToolPool : ParseTool(tool, F_x12)

InitPkg == PkgInit /\ ExtIdle /\ RlIdle /\ GhIdle /\ FvIdle /\ MainIdle /\ FilterIdle

SpecPkg == InitPkg /\ [][PkgNext]_vars

-----------------------------------------------------------------------------
(* Claims about package recipes *)

\* the commands parse_tool returned
OutCmds == parse_out.val.out.cmds

\* the places of the verb c in the commands parse_tool returned
OutPositions(c) == {i \in 1..Len(OutCmds) : OutCmds[i].cmd = c}

\* parse_tool accepted the recipe of a package folder of the manager with
\* the given suffix
AcceptedFolder(suffix) ==
    /\ Accepted
    /\ parse_out.val.tool.suffix = suffix
    /\ parse_out.val.tool.is_dir

CondaTail == << Cmd("COPY_DIR", <<L_pkg_recipe, L_recipe>>), C_conda_build >>

\* C22: a conda recipe is accepted only in a package folder, with a
\* version that is not empty and with 1 or 2 commands after VERSION and
\* SANDBOX of which the last is CONDA; the commands returned are those
\* commands with CONDA replaced by COPY_DIR $PKG/recipe recipe and
\* CONDA_BUILD, and the target is TMP.  A recipe that holds CONDA_BUILD is
\* rejected, so an accepted program holds CONDA_BUILD only as the last
\* command of this rewrite.
C22_CondaRewrite ==
    /\ (Accepted /\ parse_out.val.tool.suffix = X_conda) =>
          LET n == Len(RecipeTail) IN
          /\ parse_out.val.tool.is_dir
          /\ parse_out.val.out.params.VERSION # <<>>
          /\ n \in {1, 2}
          /\ RecipeTail[n].cmd = "CONDA"
          /\ OutCmds = SubSeq(RecipeTail, 1, n - 1) \o CondaTail
          /\ parse_out.val.out.params.DIR = "TMP"
    /\ (ParseDone /\ RecipeHas("CONDA_BUILD")) => ~IsOk(parse_out)
    /\ Accepted =>
          /\ OutPositions("CONDA_BUILD") \subseteq {Len(OutCmds)}
          /\ OutPositions("CONDA_BUILD") # {} => parse_out.val.tool.suffix = X_conda

\* an accepted conda recipe with a download, without SANDBOX
C22_Witness ==
    /\ AcceptedFolder(X_conda)
    /\ recipe = <<C_version, C_download, C_conda>>
    /\ OutCmds = <<C_download>> \o CondaTail
    /\ parse_out.val.out.params.DIR = "TMP"

\* C27: every command of every program parse_tool returns, whatever the
\* package manager, has a handler in IMPLEMENTATIONS, so that run_cmd never
\* fails for a missing handler.
C27_EveryCommandHasHandler ==
    Accepted => \A i \in 1..Len(OutCmds) : OutCmds[i].cmd \in IMPLEMENTATIONS

-----------------------------------------------------------------------------
(* Claims about continuation blocks (checked under SpecReadLines) *)

\* the places of the command lines of the input
CommandIx(inp) == {c \in 1..Len(inp) : ~Skipped(inp[c]) /\ ~Indented(inp[c])}

\* the places of the lines of the continuation block of command line c
BlockIx(inp, c) ==
    {j \in (c + 1)..Len(inp) :
        /\ Indented(inp[j])
        /\ \A k \in (c + 1)..(j - 1) : Skipped(inp[k]) \/ Indented(inp[k])}

\* the lines of the continuation block of command line c, in order
BlockLines(inp, c) ==
    LET ixs == SelectSeq([j \in 1..Len(inp) |-> j], LAMBDA j : j \in BlockIx(inp, c))
    IN  [n \in 1..Len(ixs) |-> inp[ixs[n]]]

\* the indentation prefix of the block: the leading whitespace of its first
\* line
BlockPrefix(inp, c) ==
    LET first == inp[Least(BlockIx(inp, c))] IN SubSeq(first, 1, LStripCount(first))

\* the token read_lines made of command line c
TokenOf(inp, c) == lines.val[Cardinality({p \in CommandIx(inp) : p <= c})]

\* the lines of an argument, each with the prefix put in front again
Rebuilt(arg, prefix) ==
    LET pieces == Split(arg, "\n") IN
    [n \in 1..(Len(pieces) - 1) |-> prefix \o pieces[n]]

\* reading the block of command line c back from the last argument of its
\* token gives the lines of the block
RoundTrip(inp, c) ==
    LET args == TokenOf(inp, c).args IN
    /\ args # <<>>
    /\ Rebuilt(args[Len(args)], BlockPrefix(inp, c)) = BlockLines(inp, c)

\* C23: for every continuation block the trailing argument read_lines adds
\* is the concatenation, in order, of the lines of the block, each without
\* the indentation prefix of the block and with a newline appended: putting
\* the prefix in front of each line of the argument again gives the lines
\* of the block.
C23_BlockRoundTrip ==
    (rl_pc = "done" /\ IsOk(lines)) =>
        \A c \in CommandIx(inputs) :
            BlockIx(inputs, c) # {} => RoundTrip(inputs, c)

-----------------------------------------------------------------------------
(* Specification of SET: user variables of SetVarPool may be set to        *)
(* literal values, a value of at most MaxValue pieces of ValuePool is      *)
(* written, then set_cmd is called with one of the keys of SetKeys and the *)
(* value.  fv_params is the context before the last call, fv_out holds the *)
(* context after it.                                                       *)

MaxValue == 2

R_FOO  == <<"$">> \o K_FOO
R_REPO == <<"$">> \o K_REPO

ValuePool == {R_NAME, R_VERSION, R_FOO, R_NAMESPACE, R_REPO, R_UNKNOWN, R_DEST, L_dash}

SetVarPool ==
    { [key |-> K_NAMESPACE, value |-> <<"n", "s">>],
      [key |-> K_FOO, value |-> <<"b">>] }

SetKeys == {K_BAR, K_FOO}

SetInit ==
    /\ fv_params = ExampleParams
    /\ fv_string = <<>>
    /\ fv_out = NotCalled
    /\ fv_pc = "input"

\* an earlier SET of the recipe, with a literal value
SetLiteral(v) ==
    /\ fv_pc = "input"
    /\ v.key \notin Keys(fv_params.VARS)
    /\ fv_params' = set_cmd(fv_params, <<v.key, v.value>>).params
    /\ UNCHANGED <<fv_string, fv_out, fv_pc>>
    /\ UNCHANGED notFv

WriteValue(piece) ==
    /\ fv_pc = "input"
    /\ Len(fv_string) < MaxValue
    /\ fv_string' = Append(fv_string, piece)
    /\ UNCHANGED <<fv_params, fv_out, fv_pc>>
    /\ UNCHANGED notFv

CallSet(key) ==
    /\ fv_pc = "input"
    /\ fv_string # <<>>
    /\ key \notin Keys(fv_params.VARS)
    /\ LET out == set_cmd(fv_params, <<key, Template>>) IN
       fv_out' = [exc |-> out.exc, val |-> [key |-> key, params |-> out.params]]
    /\ fv_pc' = "done"
    /\ UNCHANGED <<fv_params, fv_string>>
    /\ UNCHANGED notFv

SetNext ==
    \/ \E v \in SetVarPool : SetLiteral(v)
    \/ \E piece \in ValuePool : WriteValue(piece)
    \/ \E key \in SetKeys : CallSet(key)

InitSet == SetInit /\ ExtIdle /\ RlIdle /\ GhIdle /\ ParseIdle /\ MainIdle /\ FilterIdle

SpecSet == InitSet /\ [][SetNext]_vars

-----------------------------------------------------------------------------
(* Claims about SET (checked under SpecSet) *)

\* the piece is one SET may hold: literal text, $NAME, $VERSION or a
\* reference to a user variable set before
Settable(p, piece) ==
    \/ Head(piece) # "$"
    \/ piece \in {R_NAME, R_VERSION}
    \/ Tail(piece) \in Keys(p.VARS)

\* what C24 has a piece of the value become
SetPiece(p, piece) ==
    IF Head(piece) # "$" THEN piece
    ELSE IF piece = R_NAME THEN p.NAME
    ELSE IF piece = R_VERSION THEN p.VERSION
    ELSE Lookup(p.VARS, Tail(piece)).value

\* what C24 has SET do with the value written
SetAsClaimed ==
    IF \A i \in 1..Len(fv_string) : Settable(fv_params, fv_string[i])
    THEN /\ IsOk(fv_out)
         /\ fv_out.val.params =
               [fv_params EXCEPT !.VARS =
                   DictSet(@, fv_out.val.key,
                           Flatten([i \in 1..Len(fv_string) |->
                                       SetPiece(fv_params, fv_string[i])]))]
    ELSE /\ ~IsOk(fv_out)
         /\ fv_out.val.params = fv_params

\* C24: SET key value stores under key, in the user variables, the value
\* with $NAME, $VERSION and the user variables set before replaced by
\* their values and changes nothing else of the context; it fails, and
\* leaves the user variables as they were, if the value refers to another
\* field of the context or to a variable that is not defined.  (Values
\* with $DEST are left aside.)
C24_SetStoresOrFails ==
    (fv_pc = "done" /\ R_DEST \notin Range(fv_string)) => SetAsClaimed

-----------------------------------------------------------------------------
(* Claims about the context of a recipe (checked under Spec) *)

\* the fields of a context that no command may change
FixedFields(p) ==
    <<p.NAME, p.VERSION, p.MGR, p.REPO, p.DOMAIN_, p.DIR, p.STEM, p.PKG,
      p.AUTHORIZATION>>

-----------------------------------------------------------------------------
(* Claims about EXTRACT (checked under SpecRun) *)

\* the name of the file the recipe in progress produced
Archive == PathName(CurParams.FILE.text)

\* C26: EXTRACT fails with an error when no earlier command produced a
\* file; after an EXTRACT that succeeded the archive is gone from the
\* working directory if and only if the target is TMP: outside TMP the
\* downloaded archive is still in the shared working directory.
C26_ExtractKeepsSharedArchive ==
    [][ (Running /\ CurCmd.cmd = "EXTRACT") =>
          /\ CurParams.FILE.kind # "path"
                => (main_pc' = "crashed" /\ error'.exc = "ValueError")
          /\ cmd_ix' = cmd_ix + 1
                => /\ Archive \in WdFiles(recipe_ix + 1)
                   /\ (Archive \notin WdFiles(recipe_ix + 1)') <=> (CurParams.DIR = "TMP") ]_vars

\* the archive of a recipe without SANDBOX is in pkgs/apt after its EXTRACT
C26_Witness ==
    /\ main_pc = "run_cmds"
    /\ cmd_ix = 2
    /\ configs[1].cmds[2].cmd = "EXTRACT"
    /\ configs[1].params.DIR = "DEBS"
    /\ PathName(configs[1].params.FILE.text) \in pkgs.APT
    /\ \E f \in pkgs.APT : f = configs[1].params.STEM \o <<"|">> \o M_bin

-----------------------------------------------------------------------------
(* Claims about the idempotency check (checked under SpecRun) *)

\* the run of recipe i ended with an error of one of its commands
FailedPartWay(i) ==
    /\ main_pc = "crashed"
    /\ error.at = "run_cmd"
    /\ error.recipe = i

\* C28: final_exists is true for a recipe only if an earlier run executed
\* all its commands: a run of the recipe that fails part-way, for example
\* after its download, leaves the repository in a state in which
\* final_exists is false for the recipe, so that later runs do not skip it.
C28_FailedRunNotFinal ==
    \A i \in 1..Len(configs) :
        FailedPartWay(i) => ~final_exists(configs[i].params, pkgs)


\* every command of recipe i ran and none raised
Completed(i) ==
    /\ i \in started
    /\ main_pc \in {"next_recipe", "done"}
    /\ recipe_ix >= i
    /\ error = NoError

\* C29: after all commands of an accepted recipe ran to completion without
\* an error, final_exists is true for the recipe's context, so that a
\* second run with the same recipes and versions skips the recipe.
C29_CompletedRunIsFinal ==
    \A i \in 1..Len(configs) :
        Completed(i) => final_exists(configs[i].params, pkgs)

-----------------------------------------------------------------------------
(* Claims about the version of a GitHub download (checked under SpecRun) *)

\* the tag of the asset DOWNLOAD_GH fetches when GitHub lists the releases rd
FetchedTag(rd) == GithubAsset(CurCmd.args, rd).val.tag

=============================================================================
